---------------------------- MODULE Spec2Model ----------------------------
(***************************************************************************)
(* The unified external-memory sorter of cdc/puller/unified_sorter.go:     *)
(* the facade UnifiedSorter.Run, the heapSorter loops, the per-flush drain *)
(* goroutines, runMerger, the backEndPool and the two sorterBackEnd        *)
(* variants, as one state machine.                                         *)
(*                                                                         *)
(* Scaling.  The program's constants are far beyond what a model checker   *)
(* enumerates, so they are scaled: numConcurrentHeaps is 2 (16 in the      *)
(* code), inputCh has capacity 2 and every other channel capacity 1, the   *)
(* size of an event is one unit and heapSizeLimit is 2 units, memoryLimit  *)
(* is two heapSizeLimits (so the first two backends in flight are memory   *)
(* backends and the next ones are files) and the pool's cache has 2 slots  *)
(* (256 in the code).                                                      *)
(*                                                                         *)
(* History.  script and nSubmitted record what the producers submit,       *)
(* delivered records every send of Run to a heap sorter,                   *)
(* output records every send on outputCh with the round and the kind of    *)
(* the send, openFiles records the descriptors os.Create has returned and  *)
(* nothing has closed.  The program reads none of them.                    *)
(***************************************************************************)
EXTENDS Integers, Sequences, FiniteSets, TLC

(***************************************************************************)
(* Bounds of the model (not program constants).                            *)
(***************************************************************************)
\* number of AddEntry calls the producers make
MaxInput == 4
\* timestamps are 1..MaxTs
MaxTs == 3
\* Resolved markers among the MaxInput events
MaxMarkers == 1
\* row changes the producers submit ahead of one Resolved marker
MaxBurst == 4
\* pairs of one row change and one Resolved marker
MaxRounds == 2
\* AddEntry calls and timestamps when the sorter is shut down
MaxShutdownInput == 2
MaxShutdownTs == 2
\* events of one run of a backend driven by itself
MaxRunLen == 4
\* backends a caller of the pool holds at a time
MaxHeld == 4
\* spill file names the pool may use up when it is driven by that caller
MaxNames == 4
\* changefeeds, captures and tables per capture and changefeed the scheduler
\* sees
MaxChangefeeds == 2
MaxCaptures == 3
MaxTables == 2
\* AddEntry calls and timestamps of producers that break the contract
MaxUncheckedInput == 3
MaxUncheckedTs == 2

(***************************************************************************)
(* Program constants, scaled.                                              *)
(***************************************************************************)
numConcurrentHeaps == 2
heapSizeLimit == 2
memoryLimit == 4
\* cap of UnifiedSorter.inputCh
InputCap == 2
\* cap of UnifiedSorter.outputCh
OutputCap == 1
\* cap of heapSorter.inputCh
SorterInCap == 1
\* cap of sorterOutCh
FlushCap == 1
\* len(backEndPool.cache)
CacheSlots == 2
\* bytes of one serialized record on a spill file: the u32 length prefix
\* and the msgpack payload of a RawKVEntry (all model events encode to the
\* same length)
RecordBytes == 64

Sorters == 0 .. (numConcurrentHeaps - 1)

(***************************************************************************)
(* Events.  id is the position of the event in the order of AddEntry calls *)
(* (it stands for the payload: two events are the same object iff they     *)
(* have the same id).  NoEvent is the nil *PolymorphicEvent.               *)
(***************************************************************************)
NoEvent == [op |-> "Nil", CRTs |-> 0, id |-> 0]
ZeroCell == [op |-> "Zero", CRTs |-> 0, id |-> 0]
CorruptCell == [op |-> "Corrupt", CRTs |-> 0, id |-> 0]

DataEvent(ts, k) == [op |-> "Put", CRTs |-> ts, id |-> k]
ResolvedEvent(ts, k) == [op |-> "Resolved", CRTs |-> ts, id |-> k]

isResolvedEvent(e) == e.op = "Resolved"

Max(a, b) == IF a >= b THEN a ELSE b

(***************************************************************************)
(* sortHeap.  A heap is the set of its sortItems [entry, data].  The       *)
(* comparator is the sort key of the events: CRTs first; at equal CRTs a   *)
(* Resolved marker sorts after the data events and the remaining ties are  *)
(* broken by arrival (id).                                                 *)
(***************************************************************************)
Less(a, b) ==
    \/ a.CRTs < b.CRTs
    \/ /\ a.CRTs = b.CRTs
       /\ ~isResolvedEvent(a)
       /\ isResolvedEvent(b)
    \/ /\ a.CRTs = b.CRTs
       /\ isResolvedEvent(a) = isResolvedEvent(b)
       /\ a.id < b.id

\* the item heap.Pop returns
HeapTop(h) == CHOOSE x \in h : \A y \in h : ~Less(y.entry, x.entry)

SortItem(e, t) == [entry |-> e, data |-> t]

\* a drain that takes the last item of the heap first
RECURSIVE HeapDrainBackwards(_)
HeapDrainBackwards(h) ==
    IF h = {} THEN << >>
    ELSE LET last == CHOOSE x \in h : \A y \in h : ~Less(x.entry, y.entry)
         IN << last.entry >> \o HeapDrainBackwards(h \ {last})

\* the events of a heap in the order successive heap.Pop calls return them
RECURSIVE HeapDrain(_)
HeapDrain(h) ==
    IF h = {} THEN << >>
    ELSE LET top == HeapTop(h) IN << top.entry >> \o HeapDrain(h \ {top})

(***************************************************************************)
(* sorterBackEnd.  One record shape for both variants:                     *)
(*   kind      "memory" or "file"                                          *)
(*   events    memory: the events slice; file: the records on disk, one    *)
(*             cell per RecordBytes bytes (an event, a cell of zero bytes  *)
(*             or a cut record)                                            *)
(*   readIndex memory: readIndex; file: records consumed by the reader     *)
(*   wbuf      file: records in the bufio.Writer, not on disk yet          *)
(*   size      file: f.size                                                *)
(*   flen      file: length of the file in bytes                           *)
(*   name      file: the n of sort-n                                       *)
(* NoBackEnd is the nil sorterBackEnd.                                     *)
(***************************************************************************)
NoBackEnd ==
    [kind |-> "nil", events |-> << >>, readIndex |-> 0, wbuf |-> << >>,
     size |-> 0, flen |-> 0, name |-> 0]

newMemorySorterBackEnd ==
    [kind |-> "memory", events |-> << >>, readIndex |-> 0, wbuf |-> << >>,
     size |-> 0, flen |-> 0, name |-> 0]

newFileSorterBackEnd(n) ==
    [kind |-> "file", events |-> << >>, readIndex |-> 0, wbuf |-> << >>,
     size |-> 0, flen |-> 0, name |-> n]

\* memorySorterBackEnd.writeNext
memWriteNext(b, e) == [b EXCEPT !.events = Append(@, e)]

\* fileSorterBackEnd.writeNext: the record goes to the buffered writer and
\* size is doubled and increased by 8
fileWriteNext(b, e) ==
    [b EXCEPT !.wbuf = Append(@, e), !.size = @ + @ + 8]

writeNext(b, e) ==
    IF b.kind = "memory" THEN memWriteNext(b, e) ELSE fileWriteNext(b, e)

RECURSIVE writeAll(_, _)
writeAll(b, es) ==
    IF es = << >> THEN b ELSE writeAll(writeNext(b, Head(es)), Tail(es))

\* memorySorterBackEnd.flush
memFlush(b) == b

\* a flush that commits nothing
fileFlushNothing(b) == b

\* fileSorterBackEnd.flush: the buffered records are written from the
\* current offset (0 after creation and after reset), over what the file
\* held there; then Seek(0, 0) and the reader starts over
fileFlush(b) ==
    LET n == Len(b.wbuf)
        m == Max(n, Len(b.events))
    IN [b EXCEPT
          !.events = [j \in 1 .. m |-> IF j <= n THEN b.wbuf[j] ELSE b.events[j]],
          !.flen = Max(b.flen, n * RecordBytes),
          !.wbuf = << >>,
          !.readIndex = 0]

flush(b) == IF b.kind = "memory" THEN memFlush(b) ELSE fileFlush(b)

\* the result of readNext: the event (NoEvent for nil), whether an error
\* was returned, and the backend afterwards
ReadResult(e, failed, b) == [event |-> e, err |-> failed, backend |-> b]

\* memorySorterBackEnd.readNext
memReadNext(b) ==
    IF b.readIndex >= Len(b.events)
    THEN ReadResult(NoEvent, FALSE, b)
    ELSE ReadResult(b.events[b.readIndex + 1], FALSE,
                    [b EXCEPT !.readIndex = @ + 1])

\* fileSorterBackEnd.readNext: io.EOF exactly at the end of the file is the
\* end of the run; a complete record is decoded; a cut record
\* (io.ErrUnexpectedEOF) or a run of zero bytes (a record of length 0, which
\* does not unmarshal) is an error
fileReadNext(b) ==
    LET r == b.readIndex IN
    IF r * RecordBytes >= b.flen
    THEN ReadResult(NoEvent, FALSE, b)
    ELSE IF /\ (r + 1) * RecordBytes <= b.flen
            /\ b.events[r + 1].op \in {"Put", "Resolved"}
         THEN ReadResult(b.events[r + 1], FALSE, [b EXCEPT !.readIndex = @ + 1])
         ELSE ReadResult(NoEvent, TRUE, b)

readNext(b) == IF b.kind = "memory" THEN memReadNext(b) ELSE fileReadNext(b)

\* the events successive readNext calls on b return, up to the end of the
\* run or to the first error
RECURSIVE readAll(_)
readAll(b) ==
    LET r == readNext(b)
    IN IF r.err \/ r.event = NoEvent THEN << >>
       ELSE << r.event >> \o readAll(r.backend)

\* memorySorterBackEnd.reset
memReset(b) == [b EXCEPT !.events = << >>, !.readIndex = 0]

\* fileSorterBackEnd.reset: Truncate(f.size) cuts the file to f.size bytes
\* or extends it with zero bytes to f.size bytes; then Seek(0, 0), size = 0
\* and reader and writer start over
fileReset(b) ==
    LET cells == (b.size + RecordBytes - 1) \div RecordBytes IN
    [b EXCEPT
       !.events = [j \in 1 .. cells |->
                     IF j > Len(b.events) THEN ZeroCell
                     ELSE IF j * RecordBytes <= b.size /\ j * RecordBytes <= b.flen
                          THEN b.events[j]
                          ELSE CorruptCell],
       !.flen = b.size,
       !.size = 0,
       !.wbuf = << >>,
       !.readIndex = 0]

reset(b) == IF b.kind = "memory" THEN memReset(b) ELSE fileReset(b)


(***************************************************************************)
(* State.  A flushTask is named by the sorter that made it and its number  *)
(* among that sorter's tasks: [s |-> i, k |-> n].  A backend has one owner *)
(* at a time and is held as a value by that owner: the task (write and     *)
(* read phase) or a slot of the pool's cache.                              *)
(***************************************************************************)
VARIABLES
    \* the environment
    script,           \* the events the producers pass to AddEntry, in order
    nSubmitted,       \* AddEntry calls that have put their event on inputCh
    cancelled,        \* ctx.Done() is closed
    crashed,          \* the process is gone (panic or log.Fatal)
    \* UnifiedSorter.Run
    rpc,              \* "loop", "send", "bcast" or "returned"
    rTaken,           \* events Run has received from inputCh
    rIdx,             \* "send", "bcast": index of the sorter to send to
    nextSorterId,     \* Run's nextSorterId
    runErr,           \* what Run returned
    outClosed,        \* sorterOutCh is closed
    \* heapSorter i
    spc,              \* "run", "publish", "returned" (run has returned and the
                      \* goroutine is sending on errCh), "exited"
    sIn,              \* heapSorter.inputCh
    sHeap,            \* heapSorter.heap
    sMaxResolved,     \* run's maxResolved
    sSize,            \* run's heapSizeBytesEstimate
    sErr,             \* what run returned
    \* flush tasks
    tasks,            \* tasks[i]: the flushTasks sorter i has created, in order
    outCh,            \* sorterOutCh: task names
    \* backEndPool
    memoryUseEstimate,
    fileNameCounter,
    cache,            \* slot -> parked backend, NoBackEnd for nil
    openFiles,        \* names of the spill files whose descriptor is open
    \* runMerger
    mpc,              \* "recv", "prime", "drain", "returned", "exited"
    lastResolvedTs,
    minResolvedTs,
    pendingSet,       \* pairs [task, cache]: cache is NoEvent for nil
    workingSet,
    mHeap,            \* the merge heap
    primeTodo,        \* tasks the range over pendingSet has yet to visit
    tickCRTs,         \* CRTs of the event just pushed back (0: none): what a
                      \* tick of resolvedTicker sends
    mErr,             \* what runMerger returned
    \* UnifiedSorter.outputCh
    output,           \* every event sent on outputCh, in order
    nRead,            \* events the consumer has received
    \* history of the sends of Run
    delivered,        \* every send of Run on the inputCh of a heapSorter, in
                      \* order: the event and the sorter
    \* a memory backend and a file backend driven side by side
    beOps,            \* the calls still to be made, in order
    beWritten,        \* events written so far
    beMem,            \* the memorySorterBackEnd
    beFile,           \* the fileSorterBackEnd
    beMemOut,         \* what the readNext calls on beMem have returned
    beFileOut,        \* what the readNext calls on beFile have returned
    beRun,            \* the events written since the last reset
    beRead,           \* readNext calls since the last flush
    \* a caller of the backEndPool
    held,             \* the backends alloc has returned and dealloc has not
                      \* been called with, in the order of the allocs
    poolRet,          \* the last call of the pool and what it returned
    \* the scheduler of the integration framework
    taskStatuses,     \* ownerState.TaskStatuses: per changefeed, the number
                      \* of tables of each of its captures
    minCapture,       \* what getMinWorkloadCapture has returned
    \* concurrent calls of the backEndPool
    allocators,       \* per heapSorter: where its call of alloc is (pc), the
                      \* cache slot it looks at and the file name it has drawn
    deallocator       \* where the Merger's call of dealloc is (pc), the
                      \* cache slot it looks at and the backend it parks

envVars == << script, nSubmitted, cancelled, crashed >>
runVars == << rpc, rTaken, rIdx, nextSorterId, runErr, outClosed >>
sorterVars == << spc, sIn, sHeap, sMaxResolved, sSize, sErr >>
objVars == << tasks, outCh >>
poolVars == << memoryUseEstimate, fileNameCounter, cache, openFiles >>
mergerVars == << mpc, lastResolvedTs, minResolvedTs, pendingSet, workingSet,
                 mHeap, primeTodo, tickCRTs, mErr >>
outVars == << output, nRead >>
beVars == << beOps, beWritten, beMem, beFile, beMemOut, beFileOut, beRun,
            beRead >>

callerVars == << held, poolRet, taskStatuses, minCapture, allocators,
                deallocator >>

vars == << envVars, runVars, sorterVars, objVars, poolVars, mergerVars, outVars,
           delivered, beVars, callerVars >>

NoError == "nil"
\* the empty model.CaptureID
NoCapture == 0
MaxInt32 == 2147483647
CtxErr == "context canceled"
AllocErr == "create file failed"
ReadErr == "read failed"
NilTaskErr == "nil flushTask"
WriteErr == "write failed"

\* the events AddEntry has put on UnifiedSorter.inputCh, in order
submitted == SubSeq(script, 1, nSubmitted)

\* the events waiting in UnifiedSorter.inputCh
inputCh == SubSeq(script, rTaken + 1, nSubmitted)

\* the events waiting in UnifiedSorter.outputCh
outputCh == SubSeq(output, nRead + 1, Len(output))

(***************************************************************************)
(* backEndPool.  alloc and dealloc are given as the pool after the call    *)
(* and what the call returns.                                              *)
(***************************************************************************)
PoolState(mem, ctr, slots, files) ==
    [memoryUseEstimate |-> mem, fileNameCounter |-> ctr, cache |-> slots,
     openFiles |-> files,
     backend |-> NoBackEnd, bogus |-> FALSE, err |-> FALSE, panic |-> FALSE]

\* the first non-nil slot of the cache, 0 when every slot is nil
FirstFull(slots) ==
    IF \E i \in 1 .. CacheSlots : slots[i] # NoBackEnd
    THEN CHOOSE i \in 1 .. CacheSlots :
            slots[i] # NoBackEnd /\ \A j \in 1 .. (i - 1) : slots[j] = NoBackEnd
    ELSE 0

\* a dealloc that always parks in the first slot
FirstSlot(slots) == 1

\* the first nil slot of the cache, 0 when every slot is taken
FirstFree(slots) ==
    IF \E i \in 1 .. CacheSlots : slots[i] = NoBackEnd
    THEN CHOOSE i \in 1 .. CacheSlots :
            slots[i] = NoBackEnd /\ \A j \in 1 .. (i - 1) : slots[j] # NoBackEnd
    ELSE 0

\* an alloc that never looks at memoryUseEstimate
allocAlwaysMemory(mem) == TRUE

\* backEndPool.alloc takes a memory backend
allocUsesMemory(mem) == mem < memoryLimit

\* backEndPool.alloc; createFails: os.Create fails when a fresh file is needed.
\* A slot of the cache holds a *fileSorterBackEnd (dealloc stores
\* unsafe.Pointer(b)), and alloc returns *(*sorterBackEnd)(ret): the first two
\* words of the struct (f and readWriter) read as an interface value.  bogus
\* marks that value: it is not nil, and a method call through it goes through
\* an *os.File taken as the method table.
alloc(mem, ctr, slots, files, createFails) ==
    IF allocUsesMemory(mem)
    THEN [PoolState(mem + heapSizeLimit, ctr, slots, files)
             EXCEPT !.backend = newMemorySorterBackEnd]
    ELSE IF FirstFull(slots) # 0
         THEN [PoolState(mem, ctr, [slots EXCEPT ![FirstFull(slots)] = NoBackEnd],
                         files)
                  EXCEPT !.backend = slots[FirstFull(slots)], !.bogus = TRUE]
         ELSE IF createFails
              THEN [PoolState(mem, ctr + 1, slots, files) EXCEPT !.err = TRUE]
              ELSE [PoolState(mem + heapSizeLimit, ctr + 1, slots,
                              files \cup {ctr + 1})
                       EXCEPT !.backend = newFileSorterBackEnd(ctr + 1)]

\* backEndPool.dealloc of backend b: reset, then a memory backend is
\* credited and a file backend is parked in the first nil slot; with no nil
\* slot the switch is left and the function panics.  Nothing closes the file.
dealloc(mem, ctr, slots, files, b) ==
    IF b.kind = "memory"
    THEN PoolState(mem - heapSizeLimit, ctr, slots, files)
    ELSE IF FirstFree(slots) # 0
         THEN PoolState(mem, ctr, [slots EXCEPT ![FirstFree(slots)] = reset(b)],
                        files)
         ELSE [PoolState(mem, ctr, slots, files) EXCEPT !.panic = TRUE]

\* what a call of the pool has returned: the backend (bogus: as the
\* interface value read out of a cache slot), whether err is not nil, and
\* whether the call has panicked instead of returning
PoolCall(name, b, bad, e, p) ==
    [call |-> name, backend |-> b, bogus |-> bad, err |-> e, panic |-> p]

NoCall == PoolCall("none", NoBackEnd, FALSE, FALSE, FALSE)

\* a goroutine that is not in alloc, and one that is not in dealloc
NotInAlloc == [pc |-> "idle", slot |-> 0, fname |-> 0]
NotInDealloc == [pc |-> "idle", slot |-> 0, backend |-> NoBackEnd]

(***************************************************************************)
(* flushTask: heapSorterId, backend (NoBackEnd for nil; bogus when the     *)
(* interface value came out of the pool's cache), maxResolvedTs, finished  *)
(* ("open" or "closed": the channel), oldHeap (the heap the drain          *)
(* goroutine of the task has captured) and released (dealloc has been      *)
(* called: the backend is the pool's or the garbage collector's).          *)
(***************************************************************************)
\* a flush that never has a backend
FlushTaskEmpty(i, b, bad, ts, h) ==
    [heapSorterId |-> i, backend |-> NoBackEnd, bogus |-> FALSE,
     maxResolvedTs |-> ts, finished |-> "open", oldHeap |-> {},
     released |-> FALSE]

FlushTask(i, b, bad, ts, h) ==
    [heapSorterId |-> i, backend |-> b, bogus |-> bad, maxResolvedTs |-> ts,
     finished |-> "open", oldHeap |-> h, released |-> FALSE]

TaskRef(i, n) == [s |-> i, k |-> n]
\* the names of the tasks created so far
AllTasks == UNION {{TaskRef(i, n) : n \in 1 .. Len(tasks[i])} : i \in Sorters}
taskOf(t) == tasks[t.s][t.k]

(***************************************************************************)
(* Initial state: NewUnifiedSorter, and Run up to its select loop, with    *)
(* the input the producers are going to submit.                            *)
(***************************************************************************)
InitWith(scripts) ==
    /\ script \in scripts
    /\ nSubmitted = 0
    /\ cancelled = FALSE
    /\ crashed = FALSE
    /\ rpc = "loop"
    /\ rTaken = 0
    /\ rIdx = 0
    /\ nextSorterId = 0
    /\ runErr = NoError
    /\ outClosed = FALSE
    /\ spc = [i \in Sorters |-> "run"]
    /\ sIn = [i \in Sorters |-> << >>]
    /\ sHeap = [i \in Sorters |-> {}]
    /\ sMaxResolved = [i \in Sorters |-> 0]
    /\ sSize = [i \in Sorters |-> 0]
    /\ sErr = [i \in Sorters |-> NoError]
    /\ tasks = [i \in Sorters |-> << >>]
    /\ outCh = << >>
    /\ memoryUseEstimate = 0
    /\ fileNameCounter = 0
    /\ cache = [i \in 1 .. CacheSlots |-> NoBackEnd]
    /\ openFiles = {}
    /\ mpc = "recv"
    /\ lastResolvedTs = [i \in Sorters |-> 0]
    /\ minResolvedTs = 0
    /\ pendingSet = {}
    /\ workingSet = {}
    /\ mHeap = {}
    /\ primeTodo = {}
    /\ tickCRTs = 0
    /\ mErr = NoError
    /\ output = << >>
    /\ nRead = 0
    /\ delivered = << >>
    /\ held = << >>
    /\ poolRet = NoCall
    /\ allocators = [p \in Sorters |-> NotInAlloc]
    /\ deallocator = NotInDealloc

\* the scheduler has no changefeed and has not been asked
SchedulerIdle ==
    /\ taskStatuses = << >>
    /\ minCapture = [called |-> FALSE, capture |-> NoCapture]

\* no backend is driven outside the sorter
BackEndIdle ==
    /\ beOps = << >>
    /\ beWritten = 0
    /\ beMem = NoBackEnd
    /\ beFile = NoBackEnd
    /\ beMemOut = << >>
    /\ beFileOut = << >>
    /\ beRun = << >>
    /\ beRead = 0

(***************************************************************************)
(* The producers.  They obey the contract of the sorter's input: after     *)
(* Resolved(ts) no data event with CRTs <= ts and no Resolved marker below *)
(* ts is submitted.                                                        *)
(***************************************************************************)
\* the highest Resolved marker among the first n events of s, 0 for none
ResolvedUpTo(s, n) ==
    LET rs == {s[k].CRTs : k \in {j \in 1 .. n : isResolvedEvent(s[j])}}
    IN IF rs = {} THEN 0 ELSE CHOOSE m \in rs : \A x \in rs : x <= m

ProducerContract(s) ==
    \A k \in 1 .. Len(s) :
        IF isResolvedEvent(s[k]) THEN s[k].CRTs >= ResolvedUpTo(s, k - 1)
        ELSE s[k].CRTs > ResolvedUpTo(s, k - 1)

\* the sequence of events of the shapes sh, numbered in order
Numbered(sh) ==
    [k \in 1 .. Len(sh) |-> [op |-> sh[k][1], CRTs |-> sh[k][2], id |-> k]]

\* the number of Resolved markers of s
Markers(s) == Cardinality({k \in 1 .. Len(s) : isResolvedEvent(s[k])})

\* every input of n events with timestamps 1..maxTs, at most m of them
\* Resolved markers, that obeys the contract
ScriptsOf(n, maxTs, m) ==
    {s \in {Numbered(sh) : sh \in [1 .. n -> {"Put", "Resolved"} \X (1 .. maxTs)]} :
        ProducerContract(s) /\ Markers(s) <= m}

\* n row changes below maxTs and then Resolved(maxTs)
BurstsOf(n, maxTs) ==
    {Numbered([k \in 1 .. (n + 1) |->
                 IF k <= n THEN << "Put", ts[k] >> ELSE << "Resolved", maxTs >>]) :
        ts \in [1 .. n -> 1 .. (maxTs - 1)]}

\* n times a row change and then a Resolved marker
RoundsOf(n, maxTs) ==
    {s \in {Numbered([k \in 1 .. (2 * n) |->
                        << IF k % 2 = 1 THEN "Put" ELSE "Resolved", ts[k] >>]) :
                ts \in [1 .. (2 * n) -> 1 .. maxTs]} :
        ProducerContract(s)}

Scripts == ScriptsOf(MaxInput, MaxTs, MaxMarkers)

Bursts == BurstsOf(MaxBurst, MaxTs)

Rounds == RoundsOf(MaxRounds, MaxTs)

\* a single Resolved marker and nothing else
MarkerOnly(ts) == Numbered(<< << "Resolved", ts >> >>)

ShutdownScripts ==
    ScriptsOf(MaxShutdownInput, MaxShutdownTs, MaxShutdownInput)
        \cup BurstsOf(MaxShutdownInput + 1, MaxShutdownTs)
        \cup {MarkerOnly(MaxShutdownTs)}

\* every input of n events with timestamps 1..maxTs, in the contract or not
UncheckedScriptsOf(n, maxTs) ==
    {Numbered(sh) : sh \in [1 .. n -> {"Put", "Resolved"} \X (1 .. maxTs)]}

UncheckedScripts ==
    UncheckedScriptsOf(MaxUncheckedInput, MaxUncheckedTs)
        \cup BurstsOf(MaxUncheckedInput, MaxUncheckedTs)

\* UnifiedSorter.AddEntry: case s.inputCh <- entry.  The other case of the
\* select, <-ctx.Done(), returns without a change of state.
AddEntry ==
    /\ ~crashed
    /\ nSubmitted < Len(script)
    /\ Len(inputCh) < InputCap
    /\ nSubmitted' = nSubmitted + 1
    /\ UNCHANGED << script, cancelled, crashed, runVars, sorterVars, objVars,
                    poolVars, mergerVars, outVars >>
    /\ UNCHANGED << delivered, beVars, callerVars >>

(***************************************************************************)
(* UnifiedSorter.Run: the select loop.                                     *)
(***************************************************************************)
\* Run that forwards the newest event of inputCh
receivedNewest == script[nSubmitted]

\* the event Run has received last from inputCh (the local event)
received == script[rTaken]

\* an entry of delivered
Delivery(e, i) == [event |-> e, sorter |-> i]

\* a dispatch that sends every row change to sorter 0
targetFirst(counter) == 0

\* targetId of a row change
targetId(counter) == counter % numConcurrentHeaps

\* case event := <-s.inputCh: the event is taken; a Resolved marker starts
\* the broadcast, a row change is to be sent to sorter nextSorterId % N
RunRecv ==
    /\ ~crashed
    /\ rpc = "loop"
    /\ inputCh # << >>
    /\ rTaken' = rTaken + 1
    /\ IF isResolvedEvent(Head(inputCh))
       THEN /\ rpc' = "bcast"
            /\ rIdx' = 0
            /\ UNCHANGED nextSorterId
       ELSE /\ rpc' = "send"
            /\ rIdx' = targetId(nextSorterId)
            /\ nextSorterId' = nextSorterId + 1
    /\ UNCHANGED << envVars, runErr, outClosed, sorterVars, objVars, poolVars,
                    mergerVars, outVars >>
    /\ UNCHANGED << delivered, beVars, callerVars >>

\* case sorter.inputCh <- event of the broadcast loop
RunBroadcast ==
    /\ ~crashed
    /\ rpc = "bcast"
    /\ Len(sIn[rIdx]) < SorterInCap
    /\ sIn' = [sIn EXCEPT ![rIdx] = Append(@, received)]
    /\ IF rIdx + 1 = numConcurrentHeaps
       THEN rpc' = "loop" /\ rIdx' = 0
       ELSE rpc' = "bcast" /\ rIdx' = rIdx + 1
    /\ UNCHANGED << envVars, rTaken, nextSorterId, runErr, outClosed, spc, sHeap,
                    sMaxResolved, sSize, sErr, objVars, poolVars,
                    mergerVars, outVars >>
    /\ delivered' = Append(delivered, Delivery(received, rIdx))
    /\ UNCHANGED << beVars, callerVars >>

\* case heapSorters[targetId].inputCh <- event
RunDispatch ==
    /\ ~crashed
    /\ rpc = "send"
    /\ Len(sIn[rIdx]) < SorterInCap
    /\ sIn' = [sIn EXCEPT ![rIdx] = Append(@, received)]
    /\ rpc' = "loop"
    /\ rIdx' = 0
    /\ UNCHANGED << envVars, rTaken, nextSorterId, runErr, outClosed, spc, sHeap,
                    sMaxResolved, sSize, sErr, objVars, poolVars,
                    mergerVars, outVars >>
    /\ delivered' = Append(delivered, Delivery(received, rIdx))
    /\ UNCHANGED << beVars, callerVars >>

(***************************************************************************)
(* heapSorter.run and heapSorter.flush.                                    *)
(***************************************************************************)
\* a run that flushes on Resolved markers only
needsFlushOnMarker(size, event) == isResolvedEvent(event)

\* the flush trigger of run
needsFlush(size, event) == size >= heapSizeLimit \/ isResolvedEvent(event)

\* a run that checks no event
regressesNever(event, maxResolved) == FALSE

\* the check of run that ends in log.Fatal("ResolvedTs regression, bug?")
regresses(event, maxResolved) ==
    isResolvedEvent(event) /\ event.CRTs < maxResolved

\* RawKVEntry.ApproximateSize: every model event has the same size
ApproximateSize(event) == 1

\* case event := <-h.inputCh, up to the send of flush (or to the end of
\* the iteration when nothing is flushed).  createFails: os.Create fails
\* in alloc.
HeapSorterStep(i, createFails) ==
    LET event == Head(sIn[i])
        heap == sHeap[i] \cup {SortItem(event, 0)}
        maxResolved == IF isResolvedEvent(event) THEN event.CRTs
                       ELSE sMaxResolved[i]
        size == sSize[i] + ApproximateSize(event)
        isEmptyFlush == heap = {}
        a == alloc(memoryUseEstimate, fileNameCounter, cache, openFiles, createFails)
    IN
    /\ sIn' = [sIn EXCEPT ![i] = Tail(@)]
    /\ IF regresses(event, sMaxResolved[i])
       THEN \* log.Fatal
            /\ crashed' = TRUE
            /\ UNCHANGED << spc, sHeap, sMaxResolved, sSize, sErr, tasks, poolVars >>
       ELSE /\ sMaxResolved' = [sMaxResolved EXCEPT ![i] = maxResolved]
            /\ sSize' = [sSize EXCEPT ![i] = size]
            /\ UNCHANGED crashed
            /\ IF ~needsFlush(size, event)
               THEN /\ sHeap' = [sHeap EXCEPT ![i] = heap]
                    /\ UNCHANGED << spc, sErr, tasks, poolVars >>
               ELSE IF isEmptyFlush
               THEN /\ tasks' = [tasks EXCEPT ![i] =
                          Append(@, FlushTask(i, NoBackEnd, FALSE, maxResolved, {}))]
                    /\ sHeap' = [sHeap EXCEPT ![i] = heap]
                    /\ spc' = [spc EXCEPT ![i] = "publish"]
                    /\ UNCHANGED << sErr, poolVars >>
               ELSE IF a.err
               THEN /\ sHeap' = [sHeap EXCEPT ![i] = heap]
                    /\ spc' = [spc EXCEPT ![i] = "returned"]
                    /\ sErr' = [sErr EXCEPT ![i] = AllocErr]
                    /\ fileNameCounter' = a.fileNameCounter
                    /\ UNCHANGED << tasks, memoryUseEstimate, cache, openFiles >>
               ELSE /\ tasks' = [tasks EXCEPT ![i] =
                          Append(@, FlushTask(i, a.backend, a.bogus, maxResolved, heap))]
                    /\ memoryUseEstimate' = a.memoryUseEstimate
                    /\ fileNameCounter' = a.fileNameCounter
                    /\ cache' = a.cache
                    /\ openFiles' = a.openFiles
                    /\ sHeap' = [sHeap EXCEPT ![i] = {}]
                    /\ spc' = [spc EXCEPT ![i] = "publish"]
                    /\ UNCHANGED sErr
    /\ UNCHANGED << script, nSubmitted, cancelled, runVars, outCh, mergerVars,
                    outVars >>
    /\ UNCHANGED << delivered, beVars, callerVars >>

HeapSorterRun(i) ==
    /\ ~crashed
    /\ spc[i] = "run"
    /\ sIn[i] # << >>
    /\ HeapSorterStep(i, FALSE)

\* case h.outputCh <- task of flush, and the rest of the iteration of run
HeapSorterPublish(i) ==
    /\ ~crashed
    /\ spc[i] = "publish"
    /\ ~outClosed
    /\ Len(outCh) < FlushCap
    /\ outCh' = Append(outCh, TaskRef(i, Len(tasks[i])))
    /\ spc' = [spc EXCEPT ![i] = "run"]
    /\ sSize' = [sSize EXCEPT ![i] = 0]
    /\ UNCHANGED << envVars, runVars, sIn, sHeap, sMaxResolved, sErr, tasks,
                    poolVars, mergerVars, outVars >>
    /\ UNCHANGED << delivered, beVars, callerVars >>

\* the goroutine flush starts: the old heap is popped into the backend,
\* the backend is flushed and task.finished is closed
DrainWorker(t) ==
    /\ ~crashed
    /\ t \in AllTasks
    /\ taskOf(t).finished = "open"
    /\ IF taskOf(t).backend = NoBackEnd
       THEN /\ tasks' = [tasks EXCEPT ![t.s][t.k].finished = "closed"]
            /\ UNCHANGED crashed
       ELSE IF taskOf(t).bogus
       THEN \* task.backend.writeNext through the bogus interface value
            /\ crashed' = TRUE
            /\ UNCHANGED tasks
       ELSE /\ tasks' = [tasks EXCEPT
                  ![t.s][t.k].finished = "closed",
                  ![t.s][t.k].oldHeap = {},
                  ![t.s][t.k].backend = flush(writeAll(@, HeapDrain(taskOf(t).oldHeap)))]
            /\ UNCHANGED crashed
    /\ UNCHANGED << script, nSubmitted, cancelled, runVars, sorterVars, outCh,
                    poolVars, mergerVars, outVars >>
    /\ UNCHANGED << delivered, beVars, callerVars >>

(***************************************************************************)
(* UnifiedSorter.outputCh.  An entry of output is the event sent, with two *)
(* history fields: round, the minResolvedTs of the merge round that sent   *)
(* it, and kind: "data" (an event of a run), "periodic" (the marker of the *)
(* resolvedTicker) or "closing" (the marker that ends the round).          *)
(***************************************************************************)
OutEntry(e, round, kind) ==
    [op |-> e.op, CRTs |-> e.CRTs, id |-> e.id, round |-> round, kind |-> kind]

\* model.NewResolvedPolymorphicEvent(0, ts)
NewResolvedPolymorphicEvent(ts) == ResolvedEvent(ts, 0)

\* a send on outputCh does not block
OutputHasRoom == Len(outputCh) < OutputCap

\* the consumer receives from Output()
Consume ==
    /\ ~crashed
    /\ nRead < Len(output)
    /\ nRead' = nRead + 1
    /\ UNCHANGED << envVars, runVars, sorterVars, objVars, poolVars, mergerVars,
                    output >>
    /\ UNCHANGED << delivered, beVars, callerVars >>

(***************************************************************************)
(* runMerger.                                                              *)
(***************************************************************************)
pendingKeys(ps) == {p.task : p \in ps}
pendingCache(ps, t) == (CHOOSE p \in ps : p.task = t).cache
pendingPut(ps, t, e) == {p \in ps : p.task # t} \cup {[task |-> t, cache |-> e]}
\* a delete that leaves the map as it is
pendingKeep(ps, t) == ps
pendingDelete(ps, t) == {p \in ps : p.task # t}

\* the minimum of lastResolvedTs
minTemp(last) == CHOOSE m \in {last[i] : i \in Sorters} :
                    \A i \in Sorters : m <= last[i]

\* the tasks the range loop of onMinResolvedTsUpdate works on
primeEligible(ps, minTs) ==
    {t \in pendingKeys(ps) : taskOf(t).maxResolvedTs <= minTs}

\* a prime that admits every event
primeSkipsNothing(event, minTs) == FALSE

\* prime: the event stays cached and the task is left out of the round
primeSkips(event, minTs) == event # NoEvent /\ event.CRTs > minTs

\* a drain loop that goes on to the end of the run
retiresNever(event, minTs) == FALSE

\* drain loop: the task is retired from the round
retires(event, minTs) == event.CRTs >= minTs

\* a drain loop that forwards every event it pops
forwardsAll(event) == TRUE

\* drain loop: the popped event is sent on out unless its opcode is
\* Resolved
forwards(event) == ~isResolvedEvent(event)

\* a task whose completion signal never comes
finishedNever(task) == FALSE

\* a Merger that does not wait for the completion signal
finishedOrNot(task) == TRUE

\* prime: case err := <-task.finished is ready (the drain goroutine has
\* closed the channel)
hasFinished(task) == task.finished = "closed"

\* a main loop that starts a merge round whenever the minimum has not gone
\* down
minHolds(newMin, oldMin) == newMin >= oldMin

\* the main loop starts a merge round
minAdvances(newMin, oldMin) == newMin > oldMin

\* case task := <-in of the main loop, up to the first suspension of
\* onMinResolvedTsUpdate (or to the end of the iteration)
MergerRecv ==
    /\ ~crashed
    /\ mpc = "recv"
    /\ outCh # << >>
    /\ LET task == Head(outCh)
           id == taskOf(task).heapSorterId
           ps == IF taskOf(task).backend # NoBackEnd
                 THEN pendingPut(pendingSet, task, NoEvent)
                 ELSE pendingSet
           last == IF lastResolvedTs[id] < taskOf(task).maxResolvedTs
                   THEN [lastResolvedTs EXCEPT ![id] = taskOf(task).maxResolvedTs]
                   ELSE lastResolvedTs
       IN /\ outCh' = Tail(outCh)
          /\ pendingSet' = ps
          /\ lastResolvedTs' = last
          /\ IF minAdvances(minTemp(last), minResolvedTs)
             THEN /\ minResolvedTs' = minTemp(last)
                  /\ primeTodo' = primeEligible(ps, minTemp(last))
                  /\ mpc' = IF primeEligible(ps, minTemp(last)) = {}
                            THEN "drain" ELSE "prime"
             ELSE UNCHANGED << minResolvedTs, primeTodo, mpc >>
          /\ workingSet' = {}
          /\ mHeap' = {}
          /\ tickCRTs' = 0
    /\ UNCHANGED << envVars, runVars, sorterVars, tasks, poolVars, mErr, outVars >>
    /\ UNCHANGED << delivered, beVars, callerVars >>

\* one iteration of the range over pendingSet: a task with a cached event
\* is taken as it is; another one is waited for (task.finished) and read
MergerPrime(t) ==
    /\ ~crashed
    /\ mpc = "prime"
    /\ t \in primeTodo
    /\ pendingCache(pendingSet, t) = NoEvent => hasFinished(taskOf(t))
    /\ LET cached == pendingCache(pendingSet, t)
           r == IF cached # NoEvent
                THEN ReadResult(cached, FALSE, taskOf(t).backend)
                ELSE readNext(taskOf(t).backend)
           todo == primeTodo \ {t}
       IN IF r.err
          THEN /\ mpc' = "returned"
               /\ mErr' = ReadErr
               /\ UNCHANGED << tasks, pendingSet, workingSet, mHeap, primeTodo >>
          ELSE /\ tasks' = [tasks EXCEPT ![t.s][t.k].backend = r.backend]
               /\ primeTodo' = todo
               /\ mpc' = IF todo = {} THEN "drain" ELSE "prime"
               /\ mErr' = mErr
               /\ IF primeSkips(r.event, minResolvedTs)
                  THEN /\ pendingSet' = pendingPut(pendingSet, t, r.event)
                       /\ UNCHANGED << workingSet, mHeap >>
                  ELSE /\ pendingSet' = pendingPut(pendingSet, t, NoEvent)
                       /\ workingSet' = workingSet \cup {t}
                       /\ mHeap' = mHeap \cup {SortItem(r.event, t)}
    /\ UNCHANGED << envVars, runVars, sorterVars, outCh, poolVars,
                    lastResolvedTs, minResolvedTs, tickCRTs, outVars >>
    /\ UNCHANGED << delivered, beVars, callerVars >>

\* the merger, the task and the pool after the part of a drain iteration
\* that follows the send: readNext, then EOF, retire or push
AfterPop(task) ==
    LET r1 == readNext(taskOf(task).backend)
        r2 == readNext(r1.backend)
        rest == mHeap \ {HeapTop(mHeap)}
        pool == PoolState(memoryUseEstimate, fileNameCounter, cache, openFiles)
        freed == dealloc(memoryUseEstimate, fileNameCounter, cache, openFiles,
                         taskOf(task).backend)
        keep == [pool |-> pool, backend |-> r1.backend, released |-> FALSE,
                 pendingSet |-> pendingSet, workingSet |-> workingSet,
                 mHeap |-> rest, tickCRTs |-> 0, err |-> NoError]
        gone == [keep EXCEPT !.pool = freed,
                             !.backend = NoBackEnd,
                             !.released = TRUE,
                             !.workingSet = workingSet \ {task},
                             !.pendingSet = pendingDelete(pendingSet, task)]
    IN
    IF r1.err THEN [keep EXCEPT !.err = ReadErr]
    ELSE IF r1.event = NoEvent
    THEN \* EOF
         gone
    ELSE IF retires(r1.event, minResolvedTs)
    THEN \* retire(task)
         IF r2.err
         THEN [keep EXCEPT !.workingSet = workingSet \ {task}, !.err = ReadErr]
         ELSE IF r2.event = NoEvent
         THEN gone
         ELSE [keep EXCEPT
                 !.backend = r2.backend,
                 !.workingSet = workingSet \ {task},
                 !.pendingSet = pendingPut(pendingSet, task, r2.event)]
    ELSE [keep EXCEPT
            !.mHeap = rest \cup {SortItem(r1.event, task)},
            !.tickCRTs = r1.event.CRTs]

\* one iteration of the drain loop: pop, send a row change on outputCh,
\* read the next event of the task
MergerDrainStep ==
    /\ ~crashed
    /\ mpc = "drain"
    /\ mHeap # {}
    /\ LET item == HeapTop(mHeap)
           event == item.entry
           task == item.data
           sends == forwards(event)
           n == AfterPop(task)
       IN IF event = NoEvent
          THEN \* event.RawKV of a nil event
               /\ crashed' = TRUE
               /\ UNCHANGED << mergerVars, tasks, poolVars, output >>
          ELSE /\ sends => OutputHasRoom
               /\ output' = IF sends
                            THEN Append(output, OutEntry(event, minResolvedTs, "data"))
                            ELSE output
               /\ crashed' = n.pool.panic
               /\ tasks' = [tasks EXCEPT ![task.s][task.k].backend = n.backend,
                                         ![task.s][task.k].released = n.released]
               /\ memoryUseEstimate' = n.pool.memoryUseEstimate
               /\ fileNameCounter' = n.pool.fileNameCounter
               /\ cache' = n.pool.cache
               /\ openFiles' = n.pool.openFiles
               /\ pendingSet' = n.pendingSet
               /\ workingSet' = n.workingSet
               /\ mHeap' = n.mHeap
               /\ tickCRTs' = n.tickCRTs
               /\ mErr' = n.err
               /\ mpc' = IF n.err # NoError THEN "returned" ELSE "drain"
               /\ UNCHANGED << lastResolvedTs, minResolvedTs, primeTodo >>
    /\ UNCHANGED << script, nSubmitted, cancelled, runVars, sorterVars, outCh, nRead >>
    /\ UNCHANGED << delivered, beVars, callerVars >>

\* case <-resolvedTicker.C after a push: sendResolvedEvent(event.CRTs)
MergerTick ==
    /\ ~crashed
    /\ mpc = "drain"
    /\ tickCRTs # 0
    /\ OutputHasRoom
    /\ output' = Append(output, OutEntry(NewResolvedPolymorphicEvent(tickCRTs),
                                         minResolvedTs, "periodic"))
    /\ tickCRTs' = 0
    /\ UNCHANGED << envVars, runVars, sorterVars, objVars, poolVars, mpc,
                    lastResolvedTs, minResolvedTs, pendingSet, workingSet, mHeap,
                    primeTodo, mErr, nRead >>
    /\ UNCHANGED << delivered, beVars, callerVars >>

\* the end of onMinResolvedTsUpdate: sendResolvedEvent(minResolvedTs)
MergerCloseRound ==
    /\ ~crashed
    /\ mpc = "drain"
    /\ mHeap = {}
    /\ OutputHasRoom
    /\ output' = Append(output, OutEntry(NewResolvedPolymorphicEvent(minResolvedTs),
                                         minResolvedTs, "closing"))
    /\ mpc' = "recv"
    /\ workingSet' = {}
    /\ tickCRTs' = 0
    /\ UNCHANGED << envVars, runVars, sorterVars, objVars, poolVars,
                    lastResolvedTs, minResolvedTs, pendingSet, mHeap,
                    primeTodo, mErr, nRead >>
    /\ UNCHANGED << delivered, beVars, callerVars >>

(***************************************************************************)
(* The sorter while nothing fails and the context is not cancelled.        *)
(***************************************************************************)
Next ==
    \/ AddEntry
    \/ RunRecv
    \/ RunBroadcast
    \/ RunDispatch
    \/ \E i \in Sorters : HeapSorterRun(i)
    \/ \E i \in Sorters : HeapSorterPublish(i)
    \/ \E t \in AllTasks : DrainWorker(t)
    \/ MergerRecv
    \/ \E t \in AllTasks : MergerPrime(t)
    \/ MergerDrainStep
    \/ MergerTick
    \/ MergerCloseRound
    \/ Consume

Init == InitWith(Scripts \cup Bursts \cup Rounds) /\ BackEndIdle /\ SchedulerIdle

Spec == Init /\ [][Next]_vars

\* the sorter with producers that may break the contract of the input
InitUnchecked == InitWith(UncheckedScripts) /\ BackEndIdle /\ SchedulerIdle

SpecUnchecked == InitUnchecked /\ [][Next]_vars

(***************************************************************************)
(* Cancellation, failure and shutdown.                                     *)
(***************************************************************************)
\* the owner of ctx cancels it; a repeated cancel changes nothing
Cancel ==
    /\ ~crashed
    /\ cancelled' = TRUE
    /\ UNCHANGED << script, nSubmitted, crashed, runVars, sorterVars, objVars,
                    poolVars, mergerVars, outVars >>
    /\ UNCHANGED << delivered, beVars, callerVars >>

\* Run returns err: the deferred close(sorterOutCh) runs
RunReturns(err) ==
    /\ rpc' = "returned"
    /\ runErr' = err
    /\ outClosed' = TRUE
    /\ UNCHANGED << rTaken, rIdx, nextSorterId >>

\* case <-ctx.Done() of the three selects of Run
RunCtxDone ==
    /\ ~crashed
    /\ cancelled
    /\ rpc \in {"loop", "send", "bcast"}
    /\ RunReturns(CtxErr)
    /\ UNCHANGED << envVars, sorterVars, objVars, poolVars, mergerVars, outVars >>
    /\ UNCHANGED << delivered, beVars, callerVars >>

\* case err := <-errCh, the sender being the goroutine of heapSorter i
RunRecvSorterErr(i) ==
    /\ ~crashed
    /\ rpc = "loop"
    /\ spc[i] = "returned"
    /\ spc' = [spc EXCEPT ![i] = "exited"]
    /\ IF sErr[i] # NoError
       THEN RunReturns(sErr[i])
       ELSE UNCHANGED runVars
    /\ UNCHANGED << envVars, sIn, sHeap, sMaxResolved, sSize, sErr, objVars,
                    poolVars, mergerVars, outVars >>
    /\ UNCHANGED << delivered, beVars, callerVars >>

\* case err := <-errCh, the sender being the goroutine of runMerger
RunRecvMergerErr ==
    /\ ~crashed
    /\ rpc = "loop"
    /\ mpc = "returned"
    /\ mpc' = "exited"
    /\ IF mErr # NoError
       THEN RunReturns(mErr)
       ELSE UNCHANGED runVars
    /\ UNCHANGED << envVars, sorterVars, objVars, poolVars, lastResolvedTs,
                    minResolvedTs, pendingSet, workingSet, mHeap, primeTodo,
                    tickCRTs, mErr, outVars >>
    /\ UNCHANGED << delivered, beVars, callerVars >>

\* case <-ctx.Done() of the select of heapSorter.run and of the one of flush
HeapSorterCtxDone(i) ==
    /\ ~crashed
    /\ cancelled
    /\ spc[i] \in {"run", "publish"}
    /\ spc' = [spc EXCEPT ![i] = "returned"]
    /\ sErr' = [sErr EXCEPT ![i] = CtxErr]
    /\ UNCHANGED << envVars, runVars, sIn, sHeap, sMaxResolved, sSize, objVars,
                    poolVars, mergerVars, outVars >>
    /\ UNCHANGED << delivered, beVars, callerVars >>

\* case h.outputCh <- task of flush once Run has closed sorterOutCh: the
\* send panics
HeapSorterSendClosed(i) ==
    /\ ~crashed
    /\ spc[i] = "publish"
    /\ outClosed
    /\ crashed' = TRUE
    /\ UNCHANGED << script, nSubmitted, cancelled, runVars, sorterVars, objVars,
                    poolVars, mergerVars, outVars >>
    /\ UNCHANGED << delivered, beVars, callerVars >>

\* the iteration of heapSorter.run in which os.Create fails
HeapSorterAllocFail(i) ==
    /\ ~crashed
    /\ spc[i] = "run"
    /\ sIn[i] # << >>
    /\ needsFlush(sSize[i] + ApproximateSize(Head(sIn[i])), Head(sIn[i]))
    /\ alloc(memoryUseEstimate, fileNameCounter, cache, openFiles, TRUE).err
    /\ HeapSorterStep(i, TRUE)

\* runMerger is at a select that has a case <-ctx.Done(): the main loop,
\* the wait for task.finished, the send of a row change, sendResolvedEvent
mergerAtSelect ==
    \/ mpc = "recv"
    \/ mpc = "prime" /\ \E t \in primeTodo : pendingCache(pendingSet, t) = NoEvent
    \/ mpc = "drain" /\ mHeap = {}
    \/ mpc = "drain" /\ mHeap # {} /\ ~isResolvedEvent(HeapTop(mHeap).entry)
    \/ mpc = "drain" /\ tickCRTs # 0

MergerCtxDone ==
    /\ ~crashed
    /\ cancelled
    /\ mergerAtSelect
    /\ mpc' = "returned"
    /\ mErr' = CtxErr
    /\ UNCHANGED << envVars, runVars, sorterVars, objVars, poolVars,
                    lastResolvedTs, minResolvedTs, pendingSet, workingSet, mHeap,
                    primeTodo, tickCRTs, outVars >>
    /\ UNCHANGED << delivered, beVars, callerVars >>

\* case task := <-in with sorterOutCh closed and empty: task is nil
MergerRecvClosed ==
    /\ ~crashed
    /\ mpc = "recv"
    /\ outCh = << >>
    /\ outClosed
    /\ mpc' = "returned"
    /\ mErr' = NilTaskErr
    /\ UNCHANGED << envVars, runVars, sorterVars, objVars, poolVars,
                    lastResolvedTs, minResolvedTs, pendingSet, workingSet, mHeap,
                    primeTodo, tickCRTs, outVars >>
    /\ UNCHANGED << delivered, beVars, callerVars >>

NextShutdown ==
    \/ Next
    \/ Cancel
    \/ RunCtxDone
    \/ \E i \in Sorters : RunRecvSorterErr(i)
    \/ RunRecvMergerErr
    \/ \E i \in Sorters : HeapSorterCtxDone(i)
    \/ \E i \in Sorters : HeapSorterSendClosed(i)
    \/ \E i \in Sorters : HeapSorterAllocFail(i)
    \/ MergerCtxDone
    \/ MergerRecvClosed

InitShutdown == InitWith(ShutdownScripts) /\ BackEndIdle /\ SchedulerIdle

SpecShutdown == InitShutdown /\ [][NextShutdown]_vars

(***************************************************************************)
(* Write errors.  A writeNext or the flush of a drain goroutine fails: the *)
(* goroutine sends the error on task.finished, which has no buffer, and    *)
(* closes the channel when the send is over.  finished is "sending" while  *)
(* the goroutine is blocked in that send.                                  *)
(***************************************************************************)
\* a Merger that drops the error it has received
TraceNil(err) == NoError

\* errors.Trace(err)
Trace(err) == err

\* the goroutine of flush up to task.finished <- err, on a file backend
\* (the memory backend returns no error): the first writeNext fails
\* (atFlush = FALSE), or every event is written and task.backend.flush
\* fails
DrainWorkerFails(t, atFlush) ==
    /\ ~crashed
    /\ t \in AllTasks
    /\ taskOf(t).finished = "open"
    /\ taskOf(t).backend.kind = "file"
    /\ ~taskOf(t).bogus
    /\ tasks' = [tasks EXCEPT
          ![t.s][t.k].finished = "sending",
          ![t.s][t.k].oldHeap =
              IF atFlush THEN {} ELSE @ \ {HeapTop(@)},
          ![t.s][t.k].backend =
              IF atFlush THEN writeAll(@, HeapDrain(taskOf(t).oldHeap)) ELSE @]
    /\ UNCHANGED << envVars, runVars, sorterVars, outCh, poolVars, mergerVars,
                    outVars >>
    /\ UNCHANGED << delivered, beVars, callerVars >>

\* prime: case err := <-task.finished receives the error of the drain
\* goroutine, which goes on to close(task.finished); onMinResolvedTsUpdate
\* and runMerger return the error
MergerPrimeErr(t) ==
    /\ ~crashed
    /\ mpc = "prime"
    /\ t \in primeTodo
    /\ pendingCache(pendingSet, t) = NoEvent
    /\ taskOf(t).finished = "sending"
    /\ tasks' = [tasks EXCEPT ![t.s][t.k].finished = "closed"]
    /\ mpc' = "returned"
    /\ mErr' = Trace(WriteErr)
    /\ UNCHANGED << envVars, runVars, sorterVars, outCh, poolVars,
                    lastResolvedTs, minResolvedTs, pendingSet, workingSet, mHeap,
                    primeTodo, tickCRTs, outVars >>
    /\ UNCHANGED << delivered, beVars, callerVars >>

NextWriteErr ==
    \/ NextShutdown
    \/ \E t \in AllTasks, atFlush \in BOOLEAN : DrainWorkerFails(t, atFlush)
    \/ \E t \in AllTasks : MergerPrimeErr(t)

SpecWriteErr == InitShutdown /\ [][NextWriteErr]_vars

(***************************************************************************)
(* schedulerImpl.getMinWorkloadCapture of the integration framework.       *)
(***************************************************************************)
Captures == 1 .. MaxCaptures

\* the values ownerState.TaskStatuses can have: a changefeed has a status
\* for some of the captures, with a number of tables
TaskStatuses ==
    UNION {[1 .. n -> UNION {[cs -> 0 .. MaxTables] : cs \in SUBSET Captures}] :
              n \in 0 .. MaxChangefeeds}

\* workloads[captureID] += len(task.Tables), over the first n changefeeds
RECURSIVE workloadOf(_, _, _)
workloadOf(statuses, captureID, n) ==
    IF n = 0 THEN 0
    ELSE workloadOf(statuses, captureID, n - 1)
             + (IF captureID \in DOMAIN statuses[n]
                THEN statuses[n][captureID] ELSE 0)

\* the map workloads after the first loop
workloads(statuses) ==
    [captureID \in UNION {DOMAIN statuses[n] : n \in 1 .. Len(statuses)} |->
        workloadOf(statuses, captureID, Len(statuses))]

\* the second loop over the first k keys of workloads, range visiting them
\* in order: minCapture is assigned in the branch, minWorkLoad is not
RECURSIVE rangeWorkloads(_, _, _)
rangeWorkloads(w, order, k) ==
    IF k = 0 THEN [minCapture |-> NoCapture, minWorkLoad |-> MaxInt32]
    ELSE LET before == rangeWorkloads(w, order, k - 1)
         IN IF w[order[k]] < before.minWorkLoad
            THEN [before EXCEPT !.minCapture = order[k]]
            ELSE before

\* the orders in which a range over a map with these keys can visit them
rangeOrders(keys) ==
    {order \in [1 .. Cardinality(keys) -> keys] :
        \A i, j \in 1 .. Cardinality(keys) : order[i] = order[j] => i = j}

getMinWorkloadCapture(statuses, order) ==
    rangeWorkloads(workloads(statuses), order, Len(order)).minCapture

\* a call of getMinWorkloadCapture
GetMinWorkloadCapture ==
    /\ ~minCapture.called
    /\ \E order \in rangeOrders(DOMAIN workloads(taskStatuses)) :
          minCapture' = [called |-> TRUE,
                         capture |-> getMinWorkloadCapture(taskStatuses, order)]
    /\ UNCHANGED << envVars, runVars, sorterVars, objVars, poolVars, mergerVars,
                    outVars, delivered, beVars, held, poolRet, taskStatuses,
                    allocators, deallocator >>

InitScheduler ==
    /\ InitWith({<< >>})
    /\ BackEndIdle
    /\ taskStatuses \in TaskStatuses
    /\ minCapture = [called |-> FALSE, capture |-> NoCapture]

SpecScheduler == InitScheduler /\ [][GetMinWorkloadCapture]_vars

(***************************************************************************)
(* The backEndPool driven by a caller of its own: alloc and dealloc in any *)
(* order, dealloc with any backend the caller holds, os.Create failing or  *)
(* not.                                                                    *)
(***************************************************************************)
nonPoolVars == << script, nSubmitted, cancelled, runVars, sorterVars, objVars,
                  mergerVars, outVars, delivered, beVars, taskStatuses,
                  minCapture, allocators, deallocator >>

\* p.alloc(): the caller keeps the backend unless err is not nil
PoolAlloc ==
    /\ ~crashed
    /\ Len(held) < MaxHeld
    /\ fileNameCounter < MaxNames
    /\ \E createFails \in BOOLEAN :
          LET a == alloc(memoryUseEstimate, fileNameCounter, cache, openFiles,
                         createFails)
          IN /\ memoryUseEstimate' = a.memoryUseEstimate
             /\ fileNameCounter' = a.fileNameCounter
             /\ cache' = a.cache
             /\ openFiles' = a.openFiles
             /\ held' = IF a.err THEN held
                        ELSE Append(held, [backend |-> a.backend,
                                           bogus |-> a.bogus])
             /\ poolRet' = PoolCall("alloc", a.backend, a.bogus, a.err, FALSE)
    /\ UNCHANGED << crashed, nonPoolVars >>

\* p.dealloc(backEnd) with a backend the caller holds.  dealloc starts with
\* backEnd.reset(): through the interface value read out of a cache slot
\* that is a call through an *os.File taken as the method table.
PoolDealloc ==
    /\ ~crashed
    /\ \E k \in 1 .. Len(held) :
          LET b == held[k]
              d == dealloc(memoryUseEstimate, fileNameCounter, cache, openFiles,
                           b.backend)
              rest == [i \in 1 .. (Len(held) - 1) |->
                          IF i < k THEN held[i] ELSE held[i + 1]]
          IN IF b.bogus
             THEN /\ crashed' = TRUE
                  /\ held' = rest
                  /\ poolRet' = PoolCall("dealloc", b.backend, TRUE, FALSE, TRUE)
                  /\ UNCHANGED poolVars
             ELSE /\ crashed' = d.panic
                  /\ memoryUseEstimate' = d.memoryUseEstimate
                  /\ fileNameCounter' = d.fileNameCounter
                  /\ cache' = d.cache
                  /\ openFiles' = d.openFiles
                  /\ held' = rest
                  /\ poolRet' = PoolCall("dealloc", b.backend, FALSE, FALSE,
                                         d.panic)
    /\ UNCHANGED nonPoolVars

NextPool == PoolAlloc \/ PoolDealloc

\* newBackEndPool, and nothing else running
InitPool == InitWith({<< >>}) /\ BackEndIdle /\ SchedulerIdle

SpecPool == InitPool /\ [][NextPool]_vars

(***************************************************************************)
(* The backEndPool under concurrent calls: every heapSorter may be in      *)
(* alloc (flush calls it) while the Merger is in dealloc.  One action per  *)
(* atomic operation of sync/atomic and per file system call; held is what  *)
(* alloc has returned and dealloc has not been called with.                *)
(***************************************************************************)
nonCallVars == << script, nSubmitted, cancelled, runVars, sorterVars, objVars,
                 mergerVars, outVars, delivered, beVars, poolRet, taskStatuses,
                 minCapture >>

\* a load of the slot that leaves the pointer in it
LoadPointer(slots, i) == slots

\* atomic.SwapPointer(&p.cache[i], nil): the cache after it
SwapPointer(slots, i) == [slots EXCEPT ![i] = NoBackEnd]

\* alloc: atomic.LoadInt64(&p.memoryUseEstimate) < memoryLimit
AllocLoad(p) ==
    /\ ~crashed
    /\ allocators[p].pc = "idle"
    /\ Len(held) < MaxHeld
    /\ fileNameCounter < MaxNames
    /\ allocators' = [allocators EXCEPT ![p] =
          IF allocUsesMemory(memoryUseEstimate)
          THEN [pc |-> "charge", slot |-> 0, fname |-> 0]
          ELSE [pc |-> "scan", slot |-> 1, fname |-> 0]]
    /\ UNCHANGED << crashed, poolVars, held, deallocator, nonCallVars >>

\* alloc: atomic.AddInt64(&p.memoryUseEstimate, heapSizeLimit) and the
\* return of the new memorySorterBackEnd
AllocCharge(p) ==
    /\ ~crashed
    /\ allocators[p].pc = "charge"
    /\ memoryUseEstimate' = memoryUseEstimate + heapSizeLimit
    /\ held' = Append(held, [backend |-> newMemorySorterBackEnd, bogus |-> FALSE])
    /\ allocators' = [allocators EXCEPT ![p] = NotInAlloc]
    /\ UNCHANGED << crashed, fileNameCounter, cache, openFiles, deallocator,
                    nonCallVars >>

\* alloc: one iteration of the loop over p.cache; a pointer that is not
\* nil is returned as *(*sorterBackEnd)(ret)
AllocSwap(p) ==
    /\ ~crashed
    /\ allocators[p].pc = "scan"
    /\ LET i == allocators[p].slot
           ret == cache[i]
       IN /\ cache' = SwapPointer(cache, i)
          /\ IF ret # NoBackEnd
             THEN /\ held' = Append(held, [backend |-> ret, bogus |-> TRUE])
                  /\ allocators' = [allocators EXCEPT ![p] = NotInAlloc]
             ELSE /\ held' = held
                  /\ allocators' = [allocators EXCEPT ![p] =
                        IF i < CacheSlots
                        THEN [pc |-> "scan", slot |-> i + 1, fname |-> 0]
                        ELSE [pc |-> "name", slot |-> 0, fname |-> 0]]
    /\ UNCHANGED << crashed, memoryUseEstimate, fileNameCounter, openFiles,
                    deallocator, nonCallVars >>

\* alloc: atomic.AddUint64(&p.fileNameCounter, 1)
AllocName(p) ==
    /\ ~crashed
    /\ allocators[p].pc = "name"
    /\ fileNameCounter' = fileNameCounter + 1
    /\ allocators' = [allocators EXCEPT ![p] =
          [pc |-> "create", slot |-> 0, fname |-> fileNameCounter + 1]]
    /\ UNCHANGED << crashed, memoryUseEstimate, cache, openFiles, held,
                    deallocator, nonCallVars >>

\* alloc: newFileSorterBackEnd(fname, ...); on an error alloc returns it
AllocCreate(p, createFails) ==
    /\ ~crashed
    /\ allocators[p].pc = "create"
    /\ IF createFails
       THEN /\ allocators' = [allocators EXCEPT ![p] = NotInAlloc]
            /\ UNCHANGED openFiles
       ELSE /\ allocators' = [allocators EXCEPT ![p].pc = "chargeFile"]
            /\ openFiles' = openFiles \cup {allocators[p].fname}
    /\ UNCHANGED << crashed, memoryUseEstimate, fileNameCounter, cache, held,
                    deallocator, nonCallVars >>

\* alloc: atomic.AddInt64(&p.memoryUseEstimate, heapSizeLimit) and the
\* return of the new fileSorterBackEnd
AllocChargeFile(p) ==
    /\ ~crashed
    /\ allocators[p].pc = "chargeFile"
    /\ memoryUseEstimate' = memoryUseEstimate + heapSizeLimit
    /\ held' = Append(held, [backend |-> newFileSorterBackEnd(allocators[p].fname),
                             bogus |-> FALSE])
    /\ allocators' = [allocators EXCEPT ![p] = NotInAlloc]
    /\ UNCHANGED << crashed, fileNameCounter, cache, openFiles, deallocator,
                    nonCallVars >>

\* dealloc(held[k]): backEnd.reset() and the type switch; a memory backend
\* is credited, a file backend goes to the loop over p.cache
DeallocReset(k) ==
    /\ ~crashed
    /\ deallocator.pc = "idle"
    /\ k \in 1 .. Len(held)
    /\ held' = [i \in 1 .. (Len(held) - 1) |->
                   IF i < k THEN held[i] ELSE held[i + 1]]
    /\ IF held[k].bogus
       THEN \* backEnd.reset() through the bogus interface value
            /\ crashed' = TRUE
            /\ UNCHANGED << memoryUseEstimate, deallocator >>
       ELSE IF held[k].backend.kind = "memory"
       THEN /\ memoryUseEstimate' = memoryUseEstimate - heapSizeLimit
            /\ UNCHANGED << crashed, deallocator >>
       ELSE /\ deallocator' = [pc |-> "park", slot |-> 1,
                               backend |-> reset(held[k].backend)]
            /\ UNCHANGED << crashed, memoryUseEstimate >>
    /\ UNCHANGED << fileNameCounter, cache, openFiles, allocators, nonCallVars >>

\* dealloc: atomic.CompareAndSwapPointer(&p.cache[i], nil, b); after the
\* last slot the function panics
DeallocCAS ==
    /\ ~crashed
    /\ deallocator.pc = "park"
    /\ LET i == deallocator.slot
       IN IF cache[i] = NoBackEnd
          THEN /\ cache' = [cache EXCEPT ![i] = deallocator.backend]
               /\ deallocator' = NotInDealloc
               /\ UNCHANGED crashed
          ELSE IF i < CacheSlots
          THEN /\ deallocator' = [deallocator EXCEPT !.slot = i + 1]
               /\ UNCHANGED << crashed, cache >>
          ELSE /\ crashed' = TRUE
               /\ UNCHANGED << cache, deallocator >>
    /\ UNCHANGED << memoryUseEstimate, fileNameCounter, openFiles, held,
                    allocators, nonCallVars >>

NextConcurrent ==
    \/ \E p \in Sorters : AllocLoad(p)
    \/ \E p \in Sorters : AllocCharge(p)
    \/ \E p \in Sorters : AllocSwap(p)
    \/ \E p \in Sorters : AllocName(p)
    \/ \E p \in Sorters : \E createFails \in BOOLEAN : AllocCreate(p, createFails)
    \/ \E p \in Sorters : AllocChargeFile(p)
    \/ \E k \in 1 .. Len(held) : DeallocReset(k)
    \/ DeallocCAS

SpecConcurrent == InitPool /\ [][NextConcurrent]_vars

(***************************************************************************)
(* The two sorterBackEnd variants side by side: a memorySorterBackEnd and  *)
(* a fileSorterBackEnd are given the same calls, in the order their owners *)
(* make them: the drain goroutine writes the run and flushes, the Merger   *)
(* reads, dealloc resets, and the next owner does the same again.          *)
(***************************************************************************)
pipelineVars == << envVars, runVars, sorterVars, objVars, poolVars, mergerVars,
                   outVars, delivered, callerVars >>

\* the calls of one owner: a writes, flush, b reads, reset
BackEndCycle(a, b) ==
    [k \in 1 .. (a + b + 2) |->
        IF k <= a THEN "writeNext"
        ELSE IF k = a + 1 THEN "flush"
        ELSE IF k <= a + 1 + b THEN "readNext"
        ELSE "reset"]

\* two owners in a row, each reading its run at most to the end and twice
\* more
BackEndRuns ==
    {BackEndCycle(a, b) \o BackEndCycle(c, d) :
        << a, b, c, d >> \in
            {q \in (1 .. MaxRunLen) \X (0 .. (MaxRunLen + 2))
                     \X (1 .. MaxRunLen) \X (0 .. (MaxRunLen + 2)) :
                q[2] <= q[1] + 2 /\ q[4] <= q[3] + 2}}

InitBackEnd ==
    /\ InitWith({<< >>})
    /\ beOps \in BackEndRuns
    /\ beWritten = 0
    /\ beMem = newMemorySorterBackEnd
    /\ beFile = newFileSorterBackEnd(1)
    /\ beMemOut = << >>
    /\ beFileOut = << >>
    /\ beRun = << >>
    /\ beRead = 0
    /\ SchedulerIdle

\* what a caller of readNext sees: the event and whether err is nil
Returned(r) == [event |-> r.event, err |-> r.err]

BackEndWriteNext ==
    /\ beOps # << >>
    /\ Head(beOps) = "writeNext"
    /\ beOps' = Tail(beOps)
    /\ beWritten' = beWritten + 1
    /\ beMem' = writeNext(beMem, DataEvent(beWritten + 1, beWritten + 1))
    /\ beFile' = writeNext(beFile, DataEvent(beWritten + 1, beWritten + 1))
    /\ beRun' = Append(beRun, DataEvent(beWritten + 1, beWritten + 1))
    /\ UNCHANGED << beMemOut, beFileOut, beRead, pipelineVars >>

BackEndFlush ==
    /\ beOps # << >>
    /\ Head(beOps) = "flush"
    /\ beOps' = Tail(beOps)
    /\ beMem' = flush(beMem)
    /\ beFile' = flush(beFile)
    /\ beRead' = 0
    /\ UNCHANGED << beWritten, beMemOut, beFileOut, beRun, pipelineVars >>

BackEndReadNext ==
    /\ beOps # << >>
    /\ Head(beOps) = "readNext"
    /\ beOps' = Tail(beOps)
    /\ beMem' = readNext(beMem).backend
    /\ beFile' = readNext(beFile).backend
    /\ beMemOut' = Append(beMemOut, Returned(readNext(beMem)))
    /\ beFileOut' = Append(beFileOut, Returned(readNext(beFile)))
    /\ beRead' = beRead + 1
    /\ UNCHANGED << beWritten, beRun, pipelineVars >>

BackEndReset ==
    /\ beOps # << >>
    /\ Head(beOps) = "reset"
    /\ beOps' = Tail(beOps)
    /\ beMem' = reset(beMem)
    /\ beFile' = reset(beFile)
    /\ beRun' = << >>
    /\ beRead' = 0
    /\ UNCHANGED << beWritten, beMemOut, beFileOut, pipelineVars >>

NextBackEnd ==
    \/ BackEndWriteNext
    \/ BackEndFlush
    \/ BackEndReadNext
    \/ BackEndReset

SpecBackEnd == InitBackEnd /\ [][NextBackEnd]_vars

\* what the k-th readNext after a flush has to return: the k-th event
\* written since the last reset, and the end of the run (nil, nil) after
\* the last one
roundTrip(k) ==
    IF k <= Len(beRun) THEN [event |-> beRun[k], err |-> FALSE]
    ELSE [event |-> NoEvent, err |-> FALSE]

\* the readNext calls since the last flush have returned the run
readsRun(out) ==
    \A k \in 1 .. beRead : out[Len(out) - beRead + k] = roundTrip(k)

\* the backends are in their first use: no reset has been called
firstUse == Len(beRun) = beWritten

C26_ResetEmpties ==
    ~firstUse => readsRun(beMemOut) /\ readsRun(beFileOut)

\* C17: the memory backend and the file backend are observationally
\* equivalent: given the same writeNext, flush, readNext and reset calls,
\* their readNext calls return the same events and the same ends of run.
C17_BackEndsEquivalent == beMemOut = beFileOut

(***************************************************************************)
(* Properties of the output stream.                                        *)
(***************************************************************************)
\* positions of output that hold a row change, a Resolved marker
outData == {k \in 1 .. Len(output) : output[k].op = "Put"}
outMarkers == {k \in 1 .. Len(output) : output[k].op = "Resolved"}

\* positions of script that hold a row change
scriptData == {j \in 1 .. Len(script) : ~isResolvedEvent(script[j])}

\* the row change script[j] has been emitted
emitted(j) == \E k \in outData : output[k].id = j

\* positions of output that hold the marker that closes a merge round
outClosing == {m \in outMarkers : output[m].kind = "closing"}

\* C1: conservation.  Every row change on the output was submitted, none is
\* on the output twice, and once the whole input is submitted and a round
\* has been closed with a Resolved(T), T >= the CRTs of every submitted row
\* change, every submitted row change is on the output.
C1_Conservation ==
    /\ \A k \in outData :
          /\ output[k].id \in 1 .. nSubmitted
          /\ script[output[k].id] = DataEvent(output[k].CRTs, output[k].id)
    /\ \A k1, k2 \in outData : output[k1].id = output[k2].id => k1 = k2
    /\ ( /\ nSubmitted = Len(script)
         /\ \E m \in outClosing :
               \A j \in scriptData : output[m].CRTs >= script[j].CRTs )
       => \A j \in scriptData : emitted(j)

\* C2: Resolved barrier.  No row change on the output stands after a
\* Resolved(ts) marker, periodic or closing, with ts >= its CRTs.
C2_ResolvedBarrier ==
    \A m \in outMarkers : \A k \in outData :
        m < k => output[k].CRTs > output[m].CRTs

\* C3: global monotonicity.  The CRTs of the row changes on the output
\* never decrease, within a merge round and across rounds.
C3_GlobalMonotonicity ==
    \A k1, k2 \in outData : k1 < k2 => output[k1].CRTs <= output[k2].CRTs

\* row changes of two merge rounds are on the output, the later one with
\* the larger CRTs
C3_Witness ==
    \E k1, k2 \in outData :
        /\ k1 < k2
        /\ output[k1].round < output[k2].round
        /\ output[k1].CRTs < output[k2].CRTs

\* the input ends with a Resolved marker at or above every CRTs
endsWithFinalMarker ==
    /\ isResolvedEvent(script[Len(script)])
    /\ \A j \in 1 .. Len(script) : script[j].CRTs <= script[Len(script)].CRTs

\* C4: liveness.  With an input that ends with Resolved(maxTs), the sorter
\* does not come to a stop (no step of producer, Run, heap sorters, drain
\* goroutines, Merger or consumer is possible) before every submitted row
\* change and Resolved(maxTs) are on the output.
C4_DrainsAllInput ==
    (endsWithFinalMarker /\ ~ENABLED Next)
        => /\ \A j \in scriptData : emitted(j)
           /\ \E m \in outMarkers : output[m].CRTs = script[Len(script)].CRTs

\* C5: the ts of the Resolved markers on the output never decreases.
C5_MarkersNeverRegress ==
    \A m1, m2 \in outMarkers : m1 < m2 => output[m1].CRTs <= output[m2].CRTs

C7_RunAwaitsChildren ==
    rpc = "returned"
        => /\ \A i \in Sorters : spc[i] = "exited"
           /\ mpc = "exited"
           /\ runErr \in {CtxErr, mErr} \cup {sErr[i] : i \in Sorters}

\* C8: once Run has returned the error of a heap sorter or of the Merger,
\* nothing more is sent on outputCh.
C8_NoOutputAfterError ==
    [][(rpc = "returned" /\ runErr \in {AllocErr, ReadErr, NilTaskErr})
          => output' = output]_vars

\* C9: a Merger that returns after the context was cancelled returns the
\* cancellation error.
C9_MergerReturnsCtxErr ==
    [][(cancelled /\ mpc \in {"recv", "prime", "drain"} /\ mpc' = "returned")
          => mErr' = CtxErr]_vars

\* C10: after cancellation and the return of Run no spill file is open.
C10_NoOpenSpillFile ==
    (cancelled /\ rpc = "returned") => openFiles = {}

(***************************************************************************)
(* Properties of the facade.                                               *)
(***************************************************************************)
\* the events Run has sent on the inputCh of heapSorter i, in order
deliveredTo(i) ==
    LET ds == SelectSeq(delivered, LAMBDA d : d.sorter = i)
    IN [k \in 1 .. Len(ds) |-> ds[k].event]

\* the events Run has received and is done with
handled == IF rpc \in {"send", "bcast"} THEN rTaken - 1 ELSE rTaken

\* C11: AddEntry and the order of dispatch.  What Run sends to the heap
\* sorters are events AddEntry has put on inputCh; Run sends them in the
\* order of their submission, none twice to the same sorter, and none is
\* left out: every event Run is done with has been sent.  No AddEntry
\* fails: the sorter has not crashed while events are only submitted and
\* dispatched.
C11_AcceptedOnceInOrder ==
    /\ \A a \in 1 .. Len(delivered) :
          /\ delivered[a].event.id \in 1 .. nSubmitted
          /\ delivered[a].event = script[delivered[a].event.id]
    /\ \A a, b \in 1 .. Len(delivered) :
          a < b => /\ delivered[a].event.id <= delivered[b].event.id
                   /\ delivered[a].sorter = delivered[b].sorter
                         => delivered[a].event.id < delivered[b].event.id
    /\ \A j \in 1 .. handled : \E a \in 1 .. Len(delivered) :
          delivered[a].event = script[j]

\* Run has dispatched two events that were in inputCh together
C11_Witness ==
    /\ Len(delivered) >= 2
    /\ rTaken >= 2
    /\ delivered[1].event.id < delivered[Len(delivered)].event.id
    /\ Len(inputCh) = InputCap

\* the number of row changes among the first n events of the input
dataBefore(n) == Cardinality({j \in 1 .. n : ~isResolvedEvent(script[j])})

\* the events of the first n of the input that the dispatch rule gives to
\* sorter i: every Resolved marker, and the k-th row change (k from 0) when
\* k mod N = i
dispatchRule(i, n) ==
    SelectSeq(SubSeq(script, 1, n),
              LAMBDA e : \/ isResolvedEvent(e)
                         \/ dataBefore(e.id - 1) % numConcurrentHeaps = i)

\* C14: dispatch rule.  When Run is back at its select, every heap sorter
\* has been sent exactly the events the rule gives it, in the order of the
\* input: every Resolved marker (after the row changes that precede it),
\* and the k-th row change iff k mod N is its index; during a dispatch the
\* sorters are at most one event (the one in hand) behind.
C14_DispatchRule ==
    \A i \in Sorters :
        /\ rpc = "loop" => deliveredTo(i) = dispatchRule(i, rTaken)
        /\ rpc \in {"send", "bcast"} =>
              deliveredTo(i) \in {dispatchRule(i, rTaken - 1), dispatchRule(i, rTaken)}

\* three row changes and a Resolved marker have been dispatched: sorter 0
\* has two row changes and the marker, sorter 1 one row change and the
\* marker
C14_Witness ==
    /\ rpc = "loop"
    /\ Len(deliveredTo(0)) = 3
    /\ Len(deliveredTo(1)) = 2
    /\ isResolvedEvent(deliveredTo(0)[3])
    /\ isResolvedEvent(deliveredTo(1)[2])

(***************************************************************************)
(* Properties of the heap sorters.                                         *)
(***************************************************************************)
\* C12: scenario S4.  A heap sorter does not accept a row change below its
\* maxResolved: no heap sorter that is running holds on its heap a row
\* change with CRTs below the Resolved marker it has seen.
C12_DataRegressionIsFatal ==
    ~crashed =>
        \A i \in Sorters : \A item \in sHeap[i] :
            ~isResolvedEvent(item.entry) => item.entry.CRTs >= sMaxResolved[i]

\* heapSorter i takes a Resolved marker from its inputCh in this step
takesResolved(i) ==
    /\ sIn[i] # << >>
    /\ isResolvedEvent(Head(sIn[i]))
    /\ sIn'[i] = Tail(sIn[i])

\* C13: in every heap sorter a Resolved marker below maxResolved is fatal
\* and any other Resolved marker becomes maxResolved; maxResolved never
\* decreases, and the maxResolvedTs of the flushTasks of one sorter never
\* decrease in the order of their publication.
C13_MaxResolvedMonotone ==
    [][\A i \in Sorters :
          /\ sMaxResolved'[i] >= sMaxResolved[i]
          /\ takesResolved(i) =>
                IF Head(sIn[i]).CRTs < sMaxResolved[i]
                THEN crashed' /\ tasks'[i] = tasks[i]
                ELSE ~crashed' /\ sMaxResolved'[i] = Head(sIn[i]).CRTs
          /\ \A n \in 1 .. (Len(tasks'[i]) - 1) :
                tasks'[i][n].maxResolvedTs <= tasks'[i][n + 1].maxResolvedTs]_vars

\* a heap sorter has published the runs of Resolved(1) and Resolved(2) and
\* has then taken a Resolved(1): the process is gone and maxResolved is 2
C13_Witness ==
    /\ crashed
    /\ \E i \in Sorters :
          /\ sIn[i] = << >>
          /\ sMaxResolved[i] = 2
          /\ Len(tasks[i]) = 2
          /\ tasks[i][1].maxResolvedTs < tasks[i][2].maxResolvedTs
          /\ Len(deliveredTo(i)) = 3
          /\ deliveredTo(i)[3].CRTs = 1

(***************************************************************************)
(* Scenarios.                                                              *)
(***************************************************************************)
\* every goroutine Run has started has left its loop
childrenDone ==
    /\ \A i \in Sorters : spc[i] \in {"returned", "exited"}
    /\ mpc \in {"returned", "exited"}

\* every goroutine Run has started has ended
childrenExited ==
    /\ \A i \in Sorters : spc[i] = "exited"
    /\ mpc = "exited"

\* S6, the output: with a single Resolved(ts) as input nothing but one
\* Resolved(ts) is sent on outputCh, and it is sent unless the sorter is
\* cancelled first
C15_OnlyTheMarker ==
    script = MarkerOnly(MaxShutdownTs) =>
        /\ Len(output) <= 1
        /\ \A k \in 1 .. Len(output) :
              output[k].op = "Resolved" /\ output[k].CRTs = MaxShutdownTs
        /\ (~cancelled /\ ~ENABLED Next) => Len(output) = 1

\* C15: scenario S6.  With a single Resolved(ts) as input the output is
\* exactly one Resolved(ts), and when the sorter is cancelled after the
\* consumer has received it, the shutdown is clean: once Run has returned
\* and the heap sorters and the Merger have left their loops, nothing has
\* crashed, Run has returned the cancellation error and every goroutine
\* has ended.
C15_EmptyFlushOnly ==
    /\ C15_OnlyTheMarker
    /\ ( /\ script = MarkerOnly(MaxShutdownTs)
         /\ nRead = 1
         /\ cancelled
         /\ rpc = "returned"
         /\ childrenDone )
       => /\ ~crashed
          /\ runErr = CtxErr
          /\ childrenExited

undelivered ==
    \/ nSubmitted < Len(script)
    \/ inputCh # << >>
    \/ rpc \in {"send", "bcast"}
    \/ \E i \in Sorters : sIn[i] # << >> \/ spc[i] = "publish"
    \/ \E t \in AllTasks : taskOf(t).finished = "open"
    \/ outCh # << >>
    \/ mpc \in {"prime", "drain"}
    \/ outputCh # << >>

\* C18: deadlock freedom.  While the context is not cancelled (and the
\* process has not died) and the consumer reads Output, there is no state
\* in which something is undelivered and no goroutine can take a step:
\* whoever is blocked is blocked on a queue that another goroutine is able
\* to drain.
C18_NoDeadlock ==
    (~cancelled /\ ~crashed /\ undelivered) => ENABLED Next

\* back-pressure up to the facade: Run is in the broadcast of a Resolved
\* marker and waits for a heap sorter whose inputCh is full; that sorter
\* waits to publish on the full sorterOutCh
C18_Witness ==
    /\ ~crashed
    /\ ~cancelled
    /\ rpc = "bcast"
    /\ Len(sIn[rIdx]) = SorterInCap
    /\ spc[rIdx] = "publish"
    /\ Len(outCh) = FlushCap

(***************************************************************************)
(* Properties of the Merger.                                               *)
(***************************************************************************)
\* the task of the item the drain loop pops next, and the event the loop
\* reads from that task after the pop
poppedTask == HeapTop(mHeap).data
peeked == readNext(taskOf(poppedTask).backend)

\* the step is an iteration of the drain loop that reads an event with
\* CRTs >= minResolvedTs, that is, one that retires the task
retiresTask ==
    /\ mpc = "drain"
    /\ mHeap # {}
    /\ mHeap' # mHeap
    /\ ~peeked.err
    /\ peeked.event # NoEvent
    /\ retires(peeked.event, minResolvedTs)

\* C19: when the drain loop retires a task because the event it has just
\* read has CRTs >= minResolvedTs, the task stays in pendingSet with that
\* event as its cached event.
C19_RetireCachesPeeked ==
    [][retiresTask =>
          /\ poppedTask \in pendingKeys(pendingSet')
          /\ pendingCache(pendingSet', poppedTask) = peeked.event]_vars

\* the Merger has read from the backend of task t, or holds an event of it
hasBeenRead(t) ==
    \/ t \in workingSet
    \/ taskOf(t).released
    \/ taskOf(t).backend.readIndex > 0
    \/ \E p \in pendingSet : p.task = t /\ p.cache # NoEvent
    \/ \E item \in mHeap : item.data = t

\* C20: the Merger reads the backend of a task only after the completion
\* signal of the task: every task it has read from, has taken into a
\* round or holds an event of has finished closed, and the drain goroutine
\* has written the whole run.
C20_ReadsAfterFinished ==
    \A t \in AllTasks :
        hasBeenRead(t) => taskOf(t).finished = "closed" /\ taskOf(t).oldHeap = {}

\* the Merger is in the prime of a round: it has read the first event of
\* one task and is waiting for the completion signal of another one, which
\* was published before its drain goroutine has finished
C20_Witness ==
    /\ mpc = "prime"
    /\ \E t \in workingSet : taskOf(t).backend.readIndex > 0
    /\ \E t \in primeTodo :
          taskOf(t).finished = "open" /\ taskOf(t).oldHeap # {}


(***************************************************************************)
(* Properties of the frontier.                                             *)
(***************************************************************************)
\* the tasks of heapSorter i that the Merger has received: the published
\* ones that are no longer in sorterOutCh
receivedFrom(i) ==
    {n \in 1 .. Len(tasks[i]) :
        /\ ~(spc[i] = "publish" /\ n = Len(tasks[i]))
        /\ \A k \in 1 .. Len(outCh) : outCh[k] # TaskRef(i, n)}

\* the highest maxResolvedTs among the tasks received from heapSorter i
frontierOf(i) ==
    LET ts == {tasks[i][n].maxResolvedTs : n \in receivedFrom(i)} \cup {0}
    IN CHOOSE m \in ts : \A x \in ts : x <= m

\* the step is the Merger receiving a task
mergerReceives == mpc = "recv" /\ outCh # << >> /\ outCh' = Tail(outCh)

\* the step starts a merge round
roundStarts == mpc = "recv" /\ mpc' \in {"prime", "drain"}

\* C21: frontier.  lastResolvedTs[i] is the highest maxResolvedTs of the
\* tasks received from sorter i; minResolvedTs never decreases and never
\* exceeds the minimum of lastResolvedTs; a merge round starts in the step
\* in which the Merger receives a task that lifts the minimum of
\* lastResolvedTs above minResolvedTs, and in no other step.
C21_Frontier ==
    [][/\ \A i \in Sorters : lastResolvedTs'[i] = frontierOf(i)'
       /\ minResolvedTs' >= minResolvedTs
       /\ minResolvedTs' <= minTemp(lastResolvedTs')
       /\ roundStarts <=>
             (mergerReceives /\ minTemp(lastResolvedTs') > minResolvedTs)]_vars

\* the Merger has received a task that did not start a round (one sorter
\* is ahead of the other) and, later, one that did
C21_Witness ==
    /\ mpc = "drain"
    /\ minResolvedTs > 0
    /\ \E i \in Sorters : lastResolvedTs[i] > minResolvedTs
    /\ \E i \in Sorters : Cardinality(receivedFrom(i)) >= 2

(***************************************************************************)
(* Properties of the runs.                                                 *)
(***************************************************************************)
\* C22: a run is sorted and holds the heap of the moment of the flush.  A
\* flush hands the whole heap of the sorter, the event that triggered the
\* flush included, to the drain goroutine and leaves the sorter a fresh
\* heap; nothing is added to the handed heap afterwards; and when the
\* drain goroutine has finished, the events read back from the backend have
\* non-decreasing CRTs and are exactly the events of that heap.
C22_RunsSorted ==
    [][/\ \A i \in Sorters :
             (Len(tasks'[i]) > Len(tasks[i])
                  /\ tasks'[i][Len(tasks'[i])].backend # NoBackEnd) =>
                /\ tasks'[i][Len(tasks'[i])].oldHeap =
                       sHeap[i] \cup {SortItem(Head(sIn[i]), 0)}
                /\ sHeap'[i] = {}
       /\ \A t \in AllTasks :
             LET old == taskOf(t)
                 new == tasks'[t.s][t.k]
                 run == readAll(new.backend)
             IN /\ (old.finished = "open" /\ new.finished = "open")
                      => new.oldHeap = old.oldHeap
                /\ (old.finished = "open" /\ new.finished = "closed"
                         /\ old.backend # NoBackEnd) =>
                      /\ \A k \in 1 .. (Len(run) - 1) :
                            run[k].CRTs <= run[k + 1].CRTs
                      /\ {run[k] : k \in 1 .. Len(run)}
                            = {item.entry : item \in old.oldHeap}
                      /\ Len(run) = Cardinality(old.oldHeap)]_vars

\* a run of two events with different CRTs has been written, on a spill
\* file, while the sorter already holds a later event on its fresh heap
C22_Witness ==
    \E t \in AllTasks :
        /\ taskOf(t).finished = "closed"
        /\ taskOf(t).backend.kind = "file"
        /\ Len(readAll(taskOf(t).backend)) = 2
        /\ readAll(taskOf(t).backend)[1].CRTs < readAll(taskOf(t).backend)[2].CRTs
        /\ \E u \in AllTasks : u.s = t.s /\ u.k > t.k

\* C23: every event of a run has CRTs <= the maxResolvedTs of the task
\* that carries the run, whether the flush was triggered by a Resolved
\* marker or by the size of the heap.
C23_RunBelowMaxResolved ==
    \A t \in AllTasks :
        /\ \A item \in taskOf(t).oldHeap :
              item.entry.CRTs <= taskOf(t).maxResolvedTs
        /\ (taskOf(t).backend # NoBackEnd /\ taskOf(t).finished = "closed") =>
              \A k \in 1 .. Len(readAll(taskOf(t).backend)) :
                  readAll(taskOf(t).backend)[k].CRTs <= taskOf(t).maxResolvedTs

(***************************************************************************)
(* Properties of pendingSet and of the ownership of backends.              *)
(***************************************************************************)
\* task t has events the Merger has not taken: the event cached for it in
\* pendingSet, or events of its run that no readNext has returned yet
unread(t) ==
    \/ \E p \in pendingSet : p.task = t /\ p.cache # NoEvent
    \/ taskOf(t).oldHeap # {}
    \/ readAll(taskOf(t).backend) # << >>

\* C24: pendingSet invariant.  Between merge rounds a task the Merger has
\* received is a key of pendingSet iff it has unread events (a cached event
\* counts as unread); and at any time a task whose run has been read to
\* its end is in neither pendingSet nor the working set.
C24_PendingIffUnread ==
    /\ mpc = "recv" =>
          \A i \in Sorters : \A n \in receivedFrom(i) :
              TaskRef(i, n) \in pendingKeys(pendingSet) <=> unread(TaskRef(i, n))
    /\ \A t \in AllTasks :
          taskOf(t).released =>
              t \notin pendingKeys(pendingSet) /\ t \notin workingSet

\* between two rounds: one task has been read to the end of its run and
\* has left pendingSet, another one is kept with a cached event
C24_Witness ==
    /\ mpc = "recv"
    /\ \E t \in AllTasks : taskOf(t).released
    /\ \E p \in pendingSet : p.cache # NoEvent

\* the holders of the spill file sort-n: the tasks whose backend it is and
\* the slots of the cache it is parked in
holdersOf(n) ==
    Cardinality({t \in AllTasks : taskOf(t).backend.kind = "file"
                                    /\ taskOf(t).backend.name = n})
      + Cardinality({k \in 1 .. CacheSlots : cache[k].kind = "file"
                                              /\ cache[k].name = n})

\* C25: single ownership of backends.  A backend is with the drain
\* goroutine (write phase), with the Merger (read phase) or with the pool,
\* never with two of them: the Merger has nothing of a task that is still
\* being written and nothing of a task whose backend it has deallocated,
\* and every spill file has one holder, a task or a slot of the cache.
\* dealloc is called once per task, when the run has been read to its end.
C25_SingleOwner ==
    [][/\ \A t \in AllTasks :
             /\ taskOf(t).released => tasks'[t.s][t.k].released
             /\ (~taskOf(t).released /\ tasks'[t.s][t.k].released) =>
                    /\ taskOf(t).finished = "closed"
                    /\ Len(readAll(taskOf(t).backend)) <= 1
                    /\ ~readNext(taskOf(t).backend).err
       /\ \A t \in AllTasks :
             (taskOf(t).released \/ taskOf(t).finished = "open")' =>
                 /\ t \notin workingSet'
                 /\ \A item \in mHeap' : item.data # t
                 /\ \A p \in pendingSet' : p.task = t =>
                        p.cache = NoEvent /\ ~taskOf(t).released'
       /\ ~crashed' => \A n \in openFiles' : holdersOf(n)' = 1]_vars

\* the Merger has deallocated two spill files, which are parked in the
\* cache, and a memory backend
C25_Witness ==
    /\ ~crashed
    /\ \A k \in 1 .. CacheSlots : cache[k] # NoBackEnd
    /\ Cardinality({t \in AllTasks : taskOf(t).released}) >= 3

\* C28: memory accounting is balanced.  Every alloc charges heapSizeLimit
\* and every dealloc credits it back: once every backend that was allocated
\* has been deallocated, memoryUseEstimate is 0 again.
C28_MemoryBalanced ==
    (\A t \in AllTasks : taskOf(t).backend # NoBackEnd => taskOf(t).released)
        => memoryUseEstimate = 0


\* C29: dealloc with a full cache.  dealloc of a file backend when every
\* slot of the cache is taken completes normally: it credits heapSizeLimit,
\* drops the backend, deleting its file, leaves the cache alone and
\* returns; it does not fail or abort the process.
C29_FullCacheDrops ==
    [][(/\ poolRet'.call = "dealloc"
        /\ ~poolRet'.bogus
        /\ poolRet'.backend.kind = "file"
        /\ FirstFree(cache) = 0) =>
           /\ ~crashed'
           /\ ~poolRet'.panic
           /\ memoryUseEstimate' = memoryUseEstimate - heapSizeLimit
           /\ openFiles' = openFiles \ {poolRet'.backend.name}
           /\ cache' = cache]_vars

\* C30: alloc policy.  alloc returns a new memory backend whenever
\* memoryUseEstimate < memoryLimit; otherwise a file backend taken out of
\* a non-nil slot of the cache, if there is one; otherwise a fresh file
\* backend.  It returns an error only when the creation of the fresh file
\* fails, and then memoryUseEstimate and the cache are unchanged.
C30_AllocPolicy ==
    [][poolRet'.call = "alloc" =>
          IF memoryUseEstimate < memoryLimit
          THEN /\ ~poolRet'.err
               /\ ~poolRet'.bogus
               /\ poolRet'.backend = newMemorySorterBackEnd
          ELSE IF \E k \in 1 .. CacheSlots : cache[k] # NoBackEnd
          THEN /\ ~poolRet'.err
               /\ ~poolRet'.bogus
               /\ \E k \in 1 .. CacheSlots :
                     /\ cache[k] = poolRet'.backend
                     /\ cache[k].kind = "file"
                     /\ cache' = [cache EXCEPT ![k] = NoBackEnd]
          ELSE IF poolRet'.err
          THEN /\ memoryUseEstimate' = memoryUseEstimate
               /\ cache' = cache
               /\ openFiles' = openFiles
          ELSE /\ ~poolRet'.bogus
               /\ poolRet'.backend.kind = "file"
               /\ poolRet'.backend.name \notin openFiles
               /\ openFiles' = openFiles \cup {poolRet'.backend.name}]_vars

\* C32: flush trigger.  After handling an input event a heapSorter flushes
\* if and only if the event was a Resolved marker or heapSizeBytesEstimate
\* has reached heapSizeLimit; after the flush the estimate is 0 and the
\* sorter goes on with a new, empty heap.
C32_FlushTrigger ==
    [][\A i \in Sorters :
          /\ (Len(sIn'[i]) = Len(sIn[i]) - 1 /\ ~crashed') =>
                LET event == Head(sIn[i])
                    size == sSize[i] + ApproximateSize(event)
                    flushed == Len(tasks'[i]) = Len(tasks[i]) + 1
                IN /\ flushed <=>
                          (isResolvedEvent(event) \/ size >= heapSizeLimit)
                   /\ flushed => sHeap'[i] = {} /\ spc'[i] = "publish"
                   /\ ~flushed =>
                          /\ tasks'[i] = tasks[i]
                          /\ sSize'[i] = size
                          /\ spc'[i] = "run"
          /\ (spc[i] = "publish" /\ spc'[i] = "run") =>
                sSize'[i] = 0 /\ sHeap'[i] = {}]_vars

\* a heapSorter has flushed a heap without a Resolved marker, on the size
\* of the heap alone, and is back in its loop with the estimate at 0
C32_Witness ==
    \E i \in Sorters :
        /\ spc[i] = "run"
        /\ sSize[i] = 0
        /\ tasks[i] # << >>
        /\ LET task == tasks[i][Len(tasks[i])]
           IN /\ task.oldHeap # {}
              /\ \A item \in task.oldHeap : ~isResolvedEvent(item.entry)

\* C33: a write error reaches Run.  The error of a drain goroutine is
\* delivered on task.finished: the Merger does not read the backend of a
\* task whose goroutine has failed; when it waits for that task it gets the
\* error, returns it without emitting anything more, and Run returns the
\* error it receives from the Merger.
C33_WriteErrorAborts ==
    [][/\ \A t \in AllTasks :
             taskOf(t).finished = "sending" =>
                /\ tasks'[t.s][t.k].backend = taskOf(t).backend
                /\ t \notin workingSet'
                /\ tasks'[t.s][t.k].finished = "closed" =>
                       /\ mpc = "prime" /\ mpc' = "returned"
                       /\ mErr' = WriteErr
                       /\ output' = output
       /\ mErr = WriteErr =>
             /\ mpc \in {"returned", "exited"}
             /\ mErr' = WriteErr
             /\ output' = output
             /\ \A t \in AllTasks :
                   /\ tasks'[t.s][t.k].backend.readIndex =
                          taskOf(t).backend.readIndex
                   /\ tasks'[t.s][t.k].released = taskOf(t).released
             /\ mpc' = "exited" => rpc' = "returned" /\ runErr' = WriteErr]_vars

\* Run has returned the write error of a drain goroutine, which it got
\* from the Merger
C33_Witness ==
    /\ mpc = "exited"
    /\ mErr = WriteErr
    /\ runErr = WriteErr
    /\ \E t \in AllTasks : taskOf(t).oldHeap # {} /\ taskOf(t).finished = "closed"

\* C34: every drain worker terminates.  No goroutine of flush stays
\* blocked for ever: a goroutine that has hit a write error is not left in
\* its send on task.finished once the Merger, the only receiver of that
\* channel, has returned.
C34_NoWorkerStuck ==
    \A t \in AllTasks :
        taskOf(t).finished = "sending" => mpc \notin {"returned", "exited"}

\* C37: no send on the closed queue.  Whatever the interleaving of Run
\* returning with the heapSorters, no heapSorter sends on sorterOutCh
\* after Run has closed it.
C37_NoSendOnClosed ==
    [][\A i \in Sorters : ~HeapSorterSendClosed(i)]_vars

\* C35: internal Resolved markers never leak.  A Resolved event that the
\* Merger reads from a run is not sent on outputCh: every Resolved event
\* of the output is one the Merger has made itself, at a tick or at the
\* end of a round.
C35_MarkersDoNotLeak ==
    \A k \in 1 .. Len(output) :
        IF output[k].op = "Resolved"
        THEN output[k].kind \in {"periodic", "closing"} /\ output[k].id = 0
        ELSE output[k].kind = "data" /\ output[k].id # 0

\* the Merger has read to its end a run that holds a Resolved marker (the
\* first run of a sorter, flushed by a marker), and has sent a row change
C35_Witness ==
    /\ \E i \in Sorters :
          /\ tasks[i] # << >>
          /\ tasks[i][1].released
          /\ tasks[i][1].maxResolvedTs >= 1
    /\ \E k \in 1 .. Len(output) : output[k].kind = "data"

\* C38: no empty flush.  flush is called right after a push, so every
\* flushTask has a backend and a heap of at least one event to write to
\* it, and the Merger puts every task it receives into pendingSet.
C38_NoEmptyFlush ==
    [][/\ \A i \in Sorters :
             Len(tasks'[i]) = Len(tasks[i]) + 1 =>
                LET task == tasks'[i][Len(tasks'[i])]
                IN /\ task.backend # NoBackEnd
                   /\ task.oldHeap # {}
                   /\ Head(sIn[i]) \in {item.entry : item \in task.oldHeap}
       /\ mergerReceives => Head(outCh) \in pendingKeys(pendingSet')]_vars

\* the Merger has received the task of a flush that a Resolved marker
\* alone has caused: the run is the marker
C38_Witness ==
    \E t \in pendingKeys(pendingSet) :
        /\ taskOf(t).finished = "closed"
        /\ LET run == readAll(taskOf(t).backend)
           IN Len(run) = 1 /\ isResolvedEvent(run[1])

\* C36: getMinWorkloadCapture.  The capture returned has the least total
\* number of tables, summed over the changefeeds, among the captures of
\* the task statuses; the empty capture id is returned only when there is
\* no capture.
C36_MinWorkload ==
    minCapture.called =>
        LET w == workloads(taskStatuses)
        IN IF DOMAIN w = {}
           THEN minCapture.capture = NoCapture
           ELSE /\ minCapture.capture \in DOMAIN w
                /\ \A c \in DOMAIN w : w[minCapture.capture] <= w[c]

\* C31: concurrent alloc and dealloc.  Under every interleaving a parked
\* file backend is returned by at most one alloc, a deallocated file
\* backend is parked in at most one slot (every open spill file has one
\* holder: a caller, the dealloc in progress or one slot), and the file
\* names drawn by concurrent allocs differ from each other and from the
\* names of the files that exist.
C31_ConcurrentPoolSafe ==
    /\ ~crashed =>
          \A n \in openFiles :
              Cardinality({k \in 1 .. Len(held) :
                              held[k].backend.kind = "file"
                                  /\ held[k].backend.name = n})
              + Cardinality({k \in 1 .. CacheSlots :
                                cache[k].kind = "file" /\ cache[k].name = n})
              + Cardinality({p \in Sorters :
                                allocators[p].pc = "chargeFile"
                                    /\ allocators[p].fname = n})
              + (IF deallocator.pc = "park" /\ deallocator.backend.name = n
                 THEN 1 ELSE 0) = 1
    /\ \A p \in Sorters :
          allocators[p].pc = "create" =>
             /\ allocators[p].fname \notin openFiles
             /\ \A q \in Sorters \ {p} :
                   allocators[q].pc \in {"create", "chargeFile"} =>
                       allocators[q].fname # allocators[p].fname

\* a file taken out of the cache is held, another one is parked, and the
\* two heapSorters are creating files at the same time
C31_Witness ==
    /\ ~crashed
    /\ \E k \in 1 .. Len(held) : held[k].bogus
    /\ \E k \in 1 .. CacheSlots : cache[k] # NoBackEnd
    /\ \A p \in Sorters : allocators[p].pc = "create"

\* C39: admission bound.  With the heapSorters in alloc at the same time
\* memoryUseEstimate is never negative, and the memory backends allocated
\* and not deallocated are at most ceil(memoryLimit / heapSizeLimit) plus
\* the number of heapSorters minus one; an alloc that finds
\* memoryUseEstimate >= memoryLimit does not return a memory backend, and
\* memoryUseEstimate goes down only with the dealloc of a memory backend.
C39_AdmissionBound ==
    [][/\ memoryUseEstimate' >= 0
       /\ Cardinality({k \in 1 .. Len(held') : held'[k].backend.kind = "memory"})
              <= ((memoryLimit + heapSizeLimit - 1) \div heapSizeLimit)
                     + (numConcurrentHeaps - 1)
       /\ \A p \in Sorters :
             (allocators[p].pc = "idle" /\ allocators'[p].pc = "charge")
                 => memoryUseEstimate < memoryLimit
       /\ (\E k \in 1 .. Len(held') :
               /\ Len(held') = Len(held) + 1
               /\ k = Len(held')
               /\ held'[k].backend.kind = "memory")
             => \E p \in Sorters : allocators[p].pc = "charge"
       /\ memoryUseEstimate' < memoryUseEstimate =>
             \E k \in 1 .. Len(held) :
                 /\ held[k].backend.kind = "memory"
                 /\ Len(held') = Len(held) - 1]_vars

\* the two heapSorters have passed the check together: three memory
\* backends are allocated, one above memoryLimit / heapSizeLimit
C39_Witness ==
    /\ memoryUseEstimate > memoryLimit
    /\ Cardinality({k \in 1 .. Len(held) : held[k].backend.kind = "memory"})
          = (memoryLimit \div heapSizeLimit) + numConcurrentHeaps - 1
=========================================================================
